---- MODULE Spec2Model ----
(***************************************************************************)
(* Signal lifecycle of fvg-lite: LiveSignalGenerator (active index, closed *)
(* log, session statistics, exit evaluation) and SignalSchedulerService    *)
(* (the polling loop that evaluates exits, generates, de-duplicates and    *)
(* broadcasts signals).                                                    *)
(*                                                                         *)
(* Units.  Prices are integers counted in 0.000001 (so 1.0850 is 1085000). *)
(* Both generators round entry, stop_loss and take_profit to 5 decimals,   *)
(* so those are multiples of 10; a quote of the data feed may be any       *)
(* integer.  One pip is 0.0001 = 100 units; pips_gained is kept to one     *)
(* decimal and is counted here in tenths of a pip (100.0 pips is 1000).    *)
(* win_rate is kept to one decimal and is counted in tenths of a percent.  *)
(* Times are seconds on the clock datetime.utcnow() reads.                 *)
(* Arithmetic is exact: binary floating-point error is not modelled.       *)
(***************************************************************************)
EXTENDS Integers, Sequences, FiniteSets, TLC

VARIABLES
    active,      \* LiveSignalGenerator.active_signals: symbol -> list of signals
    closed,      \* LiveSignalGenerator.closed_signals: list of signals
    stats,       \* LiveSignalGenerator.session_stats
    is_running,  \* SignalSchedulerService.is_running
    pc,          \* where the signal loop is: "idle" (not running), "top", "tick",
                 \* "sleep"; "exits" and "admit" when suspended at a broadcast
    pair,        \* index in Pairs of the next (symbol, timeframe) of the tick
    now,         \* the clock
    nextUid,     \* number of signal objects created so far (object identity)
    sent,        \* what the most recent call handed to the broadcaster, in order
    last,        \* the most recent call: its arguments and what it returned
    frame,       \* locals of a _process_symbol_timeframe call suspended at a broadcast
    loops,       \* the _run_signal_loop coroutines of the service, when several run
    ws,          \* WebSocketServer: clients (the set), known (every connection
                 \* there has been), and the send_to_all_clients call under way
                 \* or last returned: call ("idle", "sending", "blocked",
                 \* "raised", "returned"), queue (the clients of the copy
                 \* still to be sent to), targets (the copy), disconnected,
                 \* got (how often each client was sent the message)
    streamer     \* DerivDataStreamer: websocket (the number of the socket held,
                 \* 0 for None), is_connected, reconnect_attempts, sockets (how
                 \* many were opened), calls (connect() calls of the service),
                 \* handlers (the _message_handler tasks: their socket, where
                 \* they are, the delay they sleep and until when, how they
                 \* ended)

vars == <<active, closed, stats, is_running, pc, pair, now, nextUid, sent, last,
          frame, loops, ws, streamer>>

(* ------------------------------ bounds --------------------------------- *)

\* At most this many signal objects are ever created.
MaxSignals == 2

\* At most this many _run_signal_loop coroutines of one service exist at once.
MaxLoops == 2

\* At most this many websocket clients ever connect.
MaxClients == 3

\* Candles of the longest series given to the detector alone.
MaxCandles == 6

\* At most this many sockets are opened by a data streamer, and at most this
\* many times the service calls its connect().
MaxSockets == 5
MaxConnects == 5

(* ------------------------- program constants --------------------------- *)

check_interval == 30
ExpirySeconds == 14400
DedupDistance == 1000
MinPipsTarget == 200

\* The monitored universe, cut to two symbols and two timeframes.
monitored_symbols == <<"frxEURUSD", "frxGBPUSD">>
monitored_timeframes == <<"M15", "H1">>

Symbols == {monitored_symbols[i] : i \in DOMAIN monitored_symbols}
Timeframes == {monitored_timeframes[i] : i \in DOMAIN monitored_timeframes}

\* The order in which _process_all_symbols visits the pairs.
Pairs ==
    [k \in 1..(Len(monitored_symbols) * Len(monitored_timeframes)) |->
        [symbol |-> monitored_symbols[((k - 1) \div Len(monitored_timeframes)) + 1],
         timeframe |-> monitored_timeframes[((k - 1) % Len(monitored_timeframes)) + 1]]]

(* ------------------------------ helpers -------------------------------- *)

Abs(x) == IF x < 0 THEN -x ELSE x

Min(S) == CHOOSE x \in S : \A y \in S : x <= y

\* Python's round(): to the nearest, ties to the even neighbour.  n / d for
\* n >= 0, d > 0, as an integer.
RoundHalfEven(n, d) ==
    LET q == n \div d
        r == n % d
    IN  IF 2 * r < d THEN q
        ELSE IF 2 * r > d THEN q + 1
        ELSE IF q % 2 = 0 THEN q ELSE q + 1

\* round(x * 10000, 1) for a price difference x given in units, in tenths of a pip.
RoundPips(units) ==
    IF units >= 0 THEN RoundHalfEven(units, 10) ELSE -RoundHalfEven(-units, 10)

(* --------------------------- LiveSignalGenerator ----------------------- *)

\* check_exit_conditions returns None.
None == [reason |-> "none", exit_price |-> 0, pips_gained |-> 0, signal_id |-> <<>>]

ExitDict(reason, price, pips, id) ==
    [reason |-> reason, exit_price |-> price, pips_gained |-> pips, signal_id |-> id]

\* A signal as the generators build it: status 'active', no exit fields yet.
\* stamp stands for the datetime.utcnow().timestamp() inside signal_id.
NewSignal(uid, stamp, symbol, timeframe, setup, t) ==
    [uid |-> uid,
     signal_id |-> <<symbol, timeframe, stamp>>,
     symbol |-> symbol,
     timeframe |-> timeframe,
     entry |-> setup.entry,
     stop_loss |-> setup.stop_loss,
     take_profit |-> setup.take_profit,
     expires_at |-> t + ExpirySeconds,
     status |-> "active",
     exit_reason |-> "none",
     exit_price |-> 0,
     pips_gained |-> 0]

\* The dictionary check_exit_conditions returns when the target is hit.
target_hit_exit(signal) ==
    ExitDict("target_hit", signal.take_profit,
             RoundPips(Abs(signal.take_profit - signal.entry)), signal.signal_id)

\* A stop-loss exit that reports the distance to the stop as a gain.
stop_loss_exit_unsigned(signal) ==
    ExitDict("stop_loss_hit", signal.stop_loss,
             RoundPips(Abs(signal.stop_loss - signal.entry)), signal.signal_id)

\* The dictionary check_exit_conditions returns when the stop is hit.
stop_loss_exit(signal) ==
    ExitDict("stop_loss_hit", signal.stop_loss,
             -RoundPips(Abs(signal.stop_loss - signal.entry)), signal.signal_id)

\* A time-expiry exit that signs the pips as if every signal were bullish.
time_expired_exit_bullish_only(signal, current_price) ==
    LET current_pips == Abs(current_price - signal.entry)
        pips_gained == IF current_price > signal.entry THEN current_pips ELSE -current_pips
    IN  ExitDict("time_expired", current_price, RoundPips(pips_gained), signal.signal_id)

\* The dictionary check_exit_conditions returns when the signal has expired.
time_expired_exit(signal, current_price) ==
    LET is_bullish == signal.take_profit > signal.entry
        current_pips == Abs(current_price - signal.entry)
        pips_gained ==
            IF (is_bullish /\ current_price > signal.entry)
               \/ (~is_bullish /\ current_price < signal.entry)
            THEN current_pips ELSE -current_pips
    IN  ExitDict("time_expired", current_price, RoundPips(pips_gained), signal.signal_id)

\* check_exit_conditions with the target compared strictly: a price exactly
\* at take_profit is not a hit.
check_exit_conditions_strict_target(signal, current_price, t) ==
    LET entry == signal.entry
        tp == signal.take_profit
        sl == signal.stop_loss
        is_bullish == tp > entry
    IN  IF signal.status # "active" THEN None
        ELSE IF is_bullish /\ current_price > tp THEN target_hit_exit(signal)
        ELSE IF ~is_bullish /\ current_price < tp THEN target_hit_exit(signal)
        ELSE IF is_bullish /\ current_price <= sl THEN stop_loss_exit(signal)
        ELSE IF ~is_bullish /\ current_price >= sl THEN stop_loss_exit(signal)
        ELSE IF t > signal.expires_at THEN time_expired_exit(signal, current_price)
        ELSE None

\* check_exit_conditions with the expiry looked at before target and stop.
check_exit_conditions_expiry_first(signal, current_price, t) ==
    LET entry == signal.entry
        tp == signal.take_profit
        sl == signal.stop_loss
        is_bullish == tp > entry
    IN  IF signal.status # "active" THEN None
        ELSE IF t > signal.expires_at THEN time_expired_exit(signal, current_price)
        ELSE IF is_bullish /\ current_price >= tp THEN target_hit_exit(signal)
        ELSE IF ~is_bullish /\ current_price <= tp THEN target_hit_exit(signal)
        ELSE IF is_bullish /\ current_price <= sl THEN stop_loss_exit(signal)
        ELSE IF ~is_bullish /\ current_price >= sl THEN stop_loss_exit(signal)
        ELSE None

\* check_exit_conditions without the time expiry.
check_exit_conditions_never_expires(signal, current_price, t) ==
    LET entry == signal.entry
        tp == signal.take_profit
        sl == signal.stop_loss
        is_bullish == tp > entry
    IN  IF signal.status # "active" THEN None
        ELSE IF is_bullish /\ current_price >= tp THEN target_hit_exit(signal)
        ELSE IF ~is_bullish /\ current_price <= tp THEN target_hit_exit(signal)
        ELSE IF is_bullish /\ current_price <= sl THEN stop_loss_exit(signal)
        ELSE IF ~is_bullish /\ current_price >= sl THEN stop_loss_exit(signal)
        ELSE None

\* check_exit_conditions(signal, current_price), evaluated when the clock reads t.
check_exit_conditions(signal, current_price, t) ==
    LET entry == signal.entry
        tp == signal.take_profit
        sl == signal.stop_loss
        is_bullish == tp > entry
    IN  IF signal.status # "active" THEN None
        ELSE IF is_bullish /\ current_price >= tp THEN target_hit_exit(signal)
        ELSE IF ~is_bullish /\ current_price <= tp THEN target_hit_exit(signal)
        ELSE IF is_bullish /\ current_price <= sl THEN stop_loss_exit(signal)
        ELSE IF ~is_bullish /\ current_price >= sl THEN stop_loss_exit(signal)
        ELSE IF t > signal.expires_at THEN time_expired_exit(signal, current_price)
        ELSE None

\* update_session_stats counting a closure with no pips as a win.
update_session_stats_zero_wins(st, exit_signal) ==
    LET pips == exit_signal.pips_gained
        total == st.total_trades + 1
        wins == IF pips >= 0 THEN st.winning_trades + 1 ELSE st.winning_trades
        losses == IF pips >= 0 THEN st.losing_trades ELSE st.losing_trades + 1
    IN  [total_pips |-> st.total_pips + pips,
         total_trades |-> total,
         winning_trades |-> wins,
         losing_trades |-> losses,
         win_rate |-> IF total > 0 THEN RoundHalfEven(wins * 1000, total)
                      ELSE st.win_rate]

\* update_session_stats(exit_signal)
update_session_stats(st, exit_signal) ==
    LET pips == exit_signal.pips_gained
        total == st.total_trades + 1
        wins == IF pips > 0 THEN st.winning_trades + 1 ELSE st.winning_trades
        losses == IF pips > 0 THEN st.losing_trades ELSE st.losing_trades + 1
    IN  [total_pips |-> st.total_pips + pips,
         total_trades |-> total,
         winning_trades |-> wins,
         losing_trades |-> losses,
         win_rate |-> IF total > 0 THEN RoundHalfEven(wins * 1000, total)
                      ELSE st.win_rate]

\* get_active_signals(symbol)
get_active_signals(act, symbol) == act[symbol]

\* add_signal(signal)
add_signal(act, signal) ==
    [act EXCEPT ![signal.symbol] = Append(@, signal)]

\* The generator's three collections, passed around as one value.
Gen(act, cl, st) == [active |-> act, closed |-> cl, stats |-> st]

RemoveAt(seq, i) == SubSeq(seq, 1, i - 1) \o SubSeq(seq, i + 1, Len(seq))

\* The buckets of active_signals that hold a signal with this id, by position
\* in the order the buckets are scanned.
BucketsWith(act, signal_id) ==
    {b \in DOMAIN monitored_symbols :
        \E i \in DOMAIN act[monitored_symbols[b]] :
            act[monitored_symbols[b]][i].signal_id = signal_id}

\* close_signal that appends the signal to the closed log but leaves it in its
\* bucket.
close_signal_keeps_active(g, signal_id, exit_signal) ==
    IF BucketsWith(g.active, signal_id) = {}
    THEN [ok |-> FALSE, gen |-> g]
    ELSE LET symbol == monitored_symbols[Min(BucketsWith(g.active, signal_id))]
             signals == g.active[symbol]
             i == Min({j \in DOMAIN signals : signals[j].signal_id = signal_id})
             signal == [signals[i] EXCEPT !.status = "closed",
                                          !.exit_reason = exit_signal.reason,
                                          !.exit_price = exit_signal.exit_price,
                                          !.pips_gained = exit_signal.pips_gained]
         IN  [ok |-> TRUE,
              gen |-> Gen(g.active, Append(g.closed, signal),
                          update_session_stats(g.stats, exit_signal))]

\* close_signal that moves the signal to the closed log without counting it
\* in the statistics.
close_signal_uncounted(g, signal_id, exit_signal) ==
    IF BucketsWith(g.active, signal_id) = {}
    THEN [ok |-> FALSE, gen |-> g]
    ELSE LET symbol == monitored_symbols[Min(BucketsWith(g.active, signal_id))]
             signals == g.active[symbol]
             i == Min({j \in DOMAIN signals : signals[j].signal_id = signal_id})
             signal == [signals[i] EXCEPT !.status = "closed",
                                          !.exit_reason = exit_signal.reason,
                                          !.exit_price = exit_signal.exit_price,
                                          !.pips_gained = exit_signal.pips_gained]
         IN  [ok |-> TRUE,
              gen |-> Gen([g.active EXCEPT ![symbol] = RemoveAt(signals, i)],
                          Append(g.closed, signal), g.stats)]

\* close_signal that counts the exit in the statistics before it looks for
\* the signal.
close_signal_counts_first(g, signal_id, exit_signal) ==
    IF BucketsWith(g.active, signal_id) = {}
    THEN [ok |-> FALSE,
          gen |-> Gen(g.active, g.closed, update_session_stats(g.stats, exit_signal))]
    ELSE LET symbol == monitored_symbols[Min(BucketsWith(g.active, signal_id))]
             signals == g.active[symbol]
             i == Min({j \in DOMAIN signals : signals[j].signal_id = signal_id})
             signal == [signals[i] EXCEPT !.status = "closed",
                                          !.exit_reason = exit_signal.reason,
                                          !.exit_price = exit_signal.exit_price,
                                          !.pips_gained = exit_signal.pips_gained]
         IN  [ok |-> TRUE,
              gen |-> Gen([g.active EXCEPT ![symbol] = RemoveAt(signals, i)],
                          Append(g.closed, signal),
                          update_session_stats(g.stats, exit_signal))]

\* close_signal(signal_id, exit_signal): the first signal with that id, scanning
\* the buckets and each bucket in order, is marked closed, appended to the
\* closed log and deleted from its bucket; the statistics are updated.
\* ok is the returned flag.
close_signal(g, signal_id, exit_signal) ==
    IF BucketsWith(g.active, signal_id) = {}
    THEN [ok |-> FALSE, gen |-> g]
    ELSE LET symbol == monitored_symbols[Min(BucketsWith(g.active, signal_id))]
             signals == g.active[symbol]
             i == Min({j \in DOMAIN signals : signals[j].signal_id = signal_id})
             signal == [signals[i] EXCEPT !.status = "closed",
                                          !.exit_reason = exit_signal.reason,
                                          !.exit_price = exit_signal.exit_price,
                                          !.pips_gained = exit_signal.pips_gained]
         IN  [ok |-> TRUE,
              gen |-> Gen([g.active EXCEPT ![symbol] = RemoveAt(signals, i)],
                          Append(g.closed, signal),
                          update_session_stats(g.stats, exit_signal))]

(* ------------------------- SignalSchedulerService ---------------------- *)

\* What the data collaborator answers: a quote, nothing, or an exception.
NoData == -1
Raises == -2
NoPrice == -3

\* _get_current_price(symbol): the latest tick if there is one, else the close
\* of the latest candle if there is one; every exception is caught inside and
\* the answer is then None (NoPrice), as it is when there is no data at all.
get_current_price(feed) ==
    IF feed.tick = Raises THEN NoPrice
    ELSE IF feed.tick # NoData THEN feed.tick
    ELSE IF feed.candle = Raises THEN NoPrice
    ELSE IF feed.candle # NoData THEN feed.candle
    ELSE NoPrice

\* _is_duplicate_signal that also rejects an entry exactly 0.001 away.
is_duplicate_signal_inclusive(act, new_signal) ==
    \E k \in DOMAIN get_active_signals(act, new_signal.symbol) :
        LET existing_signal == get_active_signals(act, new_signal.symbol)[k]
        IN  /\ existing_signal.timeframe = new_signal.timeframe
            /\ Abs(existing_signal.entry - new_signal.entry) <= DedupDistance
            /\ existing_signal.status = "active"

\* _is_duplicate_signal(new_signal)
is_duplicate_signal(act, new_signal) ==
    \E k \in DOMAIN get_active_signals(act, new_signal.symbol) :
        LET existing_signal == get_active_signals(act, new_signal.symbol)[k]
        IN  /\ existing_signal.timeframe = new_signal.timeframe
            /\ Abs(existing_signal.entry - new_signal.entry) < DedupDistance
            /\ existing_signal.status = "active"

\* The exit message _check_exit_conditions hands to _broadcast_signal.  uid is
\* the identity of the signal object that was evaluated.
\* The exit message built from the signal as it was before it was closed.
ExitEvent_stale(signal, exit_condition) ==
    [signal_type |-> "exit",
     uid |-> signal.uid,
     symbol |-> signal.symbol,
     timeframe |-> signal.timeframe,
     signal_id |-> signal.signal_id,
     exit_price |-> signal.exit_price,
     pips_gained |-> signal.pips_gained,
     exit_reason |-> signal.exit_reason]

\* The exit message _check_exit_conditions builds after a successful close.
ExitEvent(signal, exit_condition) ==
    [signal_type |-> "exit",
     uid |-> signal.uid,
     symbol |-> signal.symbol,
     timeframe |-> signal.timeframe,
     signal_id |-> signal.signal_id,
     exit_price |-> exit_condition.exit_price,
     pips_gained |-> exit_condition.pips_gained,
     exit_reason |-> exit_condition.reason]

\* The message for a newly admitted signal: the signal itself.
EntryEvent(signal) ==
    [signal_type |-> "entry",
     uid |-> signal.uid,
     symbol |-> signal.symbol,
     timeframe |-> signal.timeframe,
     signal_id |-> signal.signal_id,
     exit_price |-> 0,
     pips_gained |-> 0,
     exit_reason |-> "none"]

\* _check_exit_conditions(symbol, current_price): a for loop over the list
\* get_active_signals returns, which is the bucket itself, not a copy.  The
\* loop reads position k of the bucket as it is at that moment and then moves
\* to k + 1, whatever close_signal deleted meanwhile.  st carries the
\* generator, the messages broadcast so far and the signals evaluated so far.
RECURSIVE ExitLoop(_, _, _, _, _)
ExitLoop(st, symbol, current_price, t, k) ==
    IF k > Len(get_active_signals(st.gen.active, symbol)) THEN st
    ELSE LET signal == get_active_signals(st.gen.active, symbol)[k]
             exit_condition == check_exit_conditions(signal, current_price, t)
         IN  IF exit_condition = None
             THEN ExitLoop([st EXCEPT !.seen = @ \cup {signal.uid}],
                           symbol, current_price, t, k + 1)
             ELSE LET res == close_signal(st.gen, exit_condition.signal_id, exit_condition)
                  IN  ExitLoop([gen |-> res.gen,
                                out |-> IF res.ok
                                        THEN Append(st.out, ExitEvent(signal, exit_condition))
                                        ELSE st.out,
                                seen |-> st.seen \cup {signal.uid}],
                               symbol, current_price, t, k + 1)

check_exit_pass(g, symbol, current_price, t) ==
    ExitLoop([gen |-> g, out |-> <<>>, seen |-> {}], symbol, current_price, t, 1)

\* The loop of _process_symbol_timeframe over new_signals: each one that is
\* not a duplicate of an active signal is added and broadcast; rejected counts
\* the others.  A candidate
\* carries its price levels and whether the clock gave it the same timestamp
\* as the signal built just before it in the same batch.
RECURSIVE AdmitLoop(_, _, _, _, _, _)
AdmitLoop(st, symbol, timeframe, batch, t, k) ==
    IF k > Len(batch) THEN st
    ELSE LET stamp == IF k > 1 /\ batch[k].same_stamp THEN st.stamp ELSE st.uid + 1
             signal == NewSignal(st.uid + 1, stamp, symbol, timeframe, batch[k].setup, t)
         IN  IF is_duplicate_signal(st.active, signal)
             THEN AdmitLoop([st EXCEPT !.stamp = stamp, !.rejected = @ + 1],
                            symbol, timeframe, batch, t, k + 1)
             ELSE AdmitLoop([active |-> add_signal(st.active, signal),
                             out |-> Append(st.out, EntryEvent(signal)),
                             uid |-> st.uid + 1,
                             stamp |-> stamp,
                             rejected |-> st.rejected],
                            symbol, timeframe, batch, t, k + 1)

\* The loop over new_signals without the broadcast of the admitted signals.
admit_new_signals_unannounced(act, uid, symbol, timeframe, batch, t) ==
    [AdmitLoop([active |-> act, out |-> <<>>, uid |-> uid, stamp |-> 0, rejected |-> 0],
               symbol, timeframe, batch, t, 1) EXCEPT !.out = <<>>]

\* The loop over new_signals with every candidate compared against the
\* signals that were active before the batch.
RECURSIVE AdmitAgainst(_, _, _, _, _, _, _)
AdmitAgainst(st, before, symbol, timeframe, batch, t, k) ==
    IF k > Len(batch) THEN st
    ELSE LET stamp == IF k > 1 /\ batch[k].same_stamp THEN st.stamp ELSE st.uid + 1
             signal == NewSignal(st.uid + 1, stamp, symbol, timeframe, batch[k].setup, t)
         IN  IF is_duplicate_signal(before, signal)
             THEN AdmitAgainst([st EXCEPT !.stamp = stamp, !.rejected = @ + 1],
                               before, symbol, timeframe, batch, t, k + 1)
             ELSE AdmitAgainst([active |-> add_signal(st.active, signal),
                                out |-> Append(st.out, EntryEvent(signal)),
                                uid |-> st.uid + 1,
                                stamp |-> stamp,
                                rejected |-> st.rejected],
                               before, symbol, timeframe, batch, t, k + 1)

admit_new_signals_against_earlier(act, uid, symbol, timeframe, batch, t) ==
    AdmitAgainst([active |-> act, out |-> <<>>, uid |-> uid, stamp |-> 0, rejected |-> 0],
                 act, symbol, timeframe, batch, t, 1)

admit_new_signals(act, uid, symbol, timeframe, batch, t) ==
    AdmitLoop([active |-> act, out |-> <<>>, uid |-> uid, stamp |-> 0, rejected |-> 0],
              symbol, timeframe, batch, t, 1)

(* ------------------------------- inputs -------------------------------- *)

Setup(entry, stop_loss, take_profit) ==
    [entry |-> entry, stop_loss |-> stop_loss, take_profit |-> take_profit]

\* Price levels generate_educational_signals can return for a symbol.  The
\* fallback generator places entry within base_price - 0.002 .. + 0.002, the
\* stop 0.001 .. 0.003 behind it and the target 0.002 .. 0.006 ahead of it;
\* the analysis path yields sell setups at the level of the candles it is fed:
\* target one gap below entry, stop half a gap above it.  Either way the
\* target is at least 20 pips from entry and all three are rounded to 5
\* decimals.
BuyA == Setup(1085000, 1083000, 1088000)
SellB == Setup(1085100, 1086600, 1082100)
BuyC == Setup(1086000, 1084000, 1089000)

GeneratedSetups(symbol) ==
    IF symbol = "frxEURUSD" THEN {BuyA, SellB, BuyC} ELSE {SellB}

\* A candidate at entry 1.0900, far from the others.
BuyF == Setup(1090000, 1088000, 1093000)

\* Signals handed to add_signal directly: the worked example (entry 1.1000,
\* stop 1.0950, target 1.1100) and its mirror image.
BuyE == Setup(1100000, 1095000, 1110000)
SellG == Setup(1100000, 1105000, 1095000)

CallerSetups(symbol) == IF symbol = "frxEURUSD" THEN {BuyE, SellG} ELSE {SellG}

\* Quotes of the data feed during the ticks of the scheduler.
TickQuotes == {1082000, 1088000}
CandleCloses == {1085000}

\* Prices handed to check_exit_conditions directly: beyond and exactly at the
\* target and the stop of the example, at the entry, and on either side of it
\* (one of them with a sixth decimal).
CallPrices == {1110500, 1110000, 1095000, 1094000, 1100000, 1100126, 1099000}

Feeds ==
    [tick : TickQuotes \cup {Raises}, candle : {NoData}]
        \cup [tick : {NoData}, candle : CandleCloses \cup {NoData, Raises}]

Candidate(setup, same_stamp) == [setup |-> setup, same_stamp |-> same_stamp]

\* What one call of generate_educational_signals can return: up to two signals.
Batches(symbol) ==
    {<<>>}
        \cup {<<Candidate(s, FALSE)>> : s \in GeneratedSetups(symbol)}
        \cup {<<Candidate(s[1], FALSE), Candidate(s[2], b)>> :
                 s \in GeneratedSetups(symbol) \X GeneratedSetups(symbol), b \in BOOLEAN}

\* The moments at which the ticks of the scheduler read the clock: signals
\* opened at 0 are past their expiry at the later one.
TickTimes == {0, ExpirySeconds + check_interval}

\* The moments at which direct calls read the clock: opening, the very
\* moment of expiry, and one second later.
CallTimes == {0, ExpirySeconds, ExpirySeconds + 1}

(* ------------------------------- states -------------------------------- *)

ActiveSignals == UNION {{active[s][i] : i \in DOMAIN active[s]} : s \in Symbols}
ClosedSignals == {closed[i] : i \in DOMAIN closed}
AllSignals == ActiveSignals \cup ClosedSignals

\* No _process_symbol_timeframe call is suspended.
NoFrame == [price |-> 0, k |-> 0, rest |-> <<>>, stamp |-> 0]

LoopIds == 1..MaxLoops

\* A slot in which no _run_signal_loop coroutine runs.
NoLoop == [pc |-> "none", pair |-> 1, wake |-> 0]

Clients == 1..MaxClients

\* WebSocketServer after __init__: no client, no broadcast under way.
NoBroadcast ==
    [clients |-> {}, known |-> {}, call |-> "idle", queue |-> <<>>, targets |-> {},
     disconnected |-> {}, got |-> [c \in Clients |-> 0]]

\* DerivDataStreamer.__init__
max_reconnect_attempts == 5
reconnect_delay == 5

\* DerivDataStreamer after __init__.
NoStreamer ==
    [websocket |-> 0, is_connected |-> FALSE, reconnect_attempts |-> 0, sockets |-> 0,
     calls |-> 0, handlers |-> <<>>]

\* Seconds between two events of a connection, and the last moment one is
\* lost.
LossGaps == {0, 7}
LastInstant == 14

Init ==
    /\ frame = NoFrame
    /\ loops = [i \in LoopIds |-> NoLoop]
    /\ ws = NoBroadcast
    /\ streamer = NoStreamer
    /\ active = [s \in Symbols |-> <<>>]
    /\ closed = <<>>
    /\ stats = [total_pips |-> 0, winning_trades |-> 0, losing_trades |-> 0,
                total_trades |-> 0, win_rate |-> 0]
    /\ is_running = FALSE
    /\ pc = "idle"
    /\ pair = 1
    /\ now = 0
    /\ nextUid = 0
    /\ sent = <<>>
    /\ last = [op |-> "none"]

(* ---------------------------- the scheduler ---------------------------- *)

\* start(): sets the flag and enters _run_signal_loop.
Start ==
    /\ pc = "idle"
    /\ is_running' = TRUE
    /\ pc' = "top"
    /\ UNCHANGED <<active, closed, stats, pair, now, nextUid, sent, last>>
    /\ UNCHANGED <<frame, loops, ws, streamer>>

\* stop(): clears the flag.
Stop ==
    /\ is_running
    /\ is_running' = FALSE
    /\ UNCHANGED <<active, closed, stats, pc, pair, now, nextUid, sent, last>>
    /\ UNCHANGED <<frame, loops, ws, streamer>>

\* The while loop without its test: a tick follows whatever the flag says.
LoopTop_ignoring_flag ==
    /\ pc = "top"
    /\ pc' = "tick"
    /\ pair' = 1
    /\ UNCHANGED <<active, closed, stats, is_running, now, nextUid, sent, last>>
    /\ UNCHANGED <<frame, loops, ws, streamer>>

\* _run_signal_loop: the test of the while loop.
LoopTop ==
    /\ pc = "top"
    /\ pc' = IF is_running THEN "tick" ELSE "idle"
    /\ pair' = 1
    /\ UNCHANGED <<active, closed, stats, is_running, now, nextUid, sent, last>>
    /\ UNCHANGED <<frame, loops, ws, streamer>>

\* _process_all_symbols with an except clause that gives up the tick at the
\* first pair that raises.
next_pair_abort_on_error(k, raised) ==
    IF raised \/ k >= Len(Pairs)
    THEN [pair |-> 1, pc |-> "sleep"]
    ELSE [pair |-> k + 1, pc |-> "tick"]

\* _process_all_symbols: whether pair k returned or raised (the exception is
\* caught and logged inside the loops), the loops go on to the next pair, and
\* after the last one the tick is over.
next_pair(k, raised) ==
    IF k < Len(Pairs)
    THEN [pair |-> k + 1, pc |-> "tick"]
    ELSE [pair |-> 1, pc |-> "sleep"]

\* _process_symbol_timeframe(symbol, timeframe), from the price fetch to the
\* broadcast of the last admitted signal, with the data feed answering one
\* of feeds and the generator returning one of batches.  When raises is true
\* generate_educational_signals raises (a malformed analysis result): what
\* the exit pass did stays, nothing is admitted and the exception leaves the
\* call.
process_symbol_timeframe(symbol, timeframe, feeds, batches) ==
    \E feed \in feeds :
      \E current_price \in {get_current_price(feed)} :
      \E exits \in {check_exit_pass(Gen(active, closed, stats), symbol, current_price, now)} :
      \E batch \in batches, raises \in BOOLEAN :
      \E adds \in {admit_new_signals(exits.gen.active, nextUid, symbol, timeframe, batch, now)} :
        LET due == {x.uid : x \in {y \in ActiveSignals :
                        /\ y.symbol = symbol
                        /\ check_exit_conditions(y, current_price, now) # None}}
        IN  IF current_price = NoPrice
            THEN /\ batch = <<>>
                 /\ ~raises
                 /\ last' = [op |-> "pair", priced |-> FALSE, exits_checked |-> FALSE,
                             generated |-> FALSE, due |-> {}, evaluated |-> {},
                             rejected |-> 0, raised |-> FALSE]
                 /\ sent' = <<>>
                 /\ UNCHANGED <<active, closed, stats, nextUid>>
            ELSE IF raises
            THEN /\ batch = <<>>
                 /\ active' = exits.gen.active
                 /\ closed' = exits.gen.closed
                 /\ stats' = exits.gen.stats
                 /\ sent' = exits.out
                 /\ last' = [op |-> "pair", priced |-> TRUE, exits_checked |-> TRUE,
                             generated |-> FALSE, due |-> due, evaluated |-> exits.seen,
                             rejected |-> 0, raised |-> TRUE]
                 /\ UNCHANGED nextUid
            ELSE /\ adds.uid <= MaxSignals
                 /\ active' = adds.active
                 /\ closed' = exits.gen.closed
                 /\ stats' = exits.gen.stats
                 /\ nextUid' = adds.uid
                 /\ sent' = exits.out \o adds.out
                 /\ last' = [op |-> "pair", priced |-> TRUE, exits_checked |-> TRUE,
                             generated |-> TRUE, due |-> due, evaluated |-> exits.seen,
                             rejected |-> adds.rejected, raised |-> FALSE]

\* One pair of the tick of the signal loop.
ProcessPair ==
    /\ pc = "tick"
    /\ process_symbol_timeframe(Pairs[pair].symbol, Pairs[pair].timeframe,
                                Feeds, Batches(Pairs[pair].symbol))
    /\ pair' = next_pair(pair, last'.raised).pair
    /\ pc' = next_pair(pair, last'.raised).pc
    /\ UNCHANGED <<is_running, now>>
    /\ UNCHANGED <<frame, loops, ws, streamer>>

\* asyncio.sleep(check_interval): at least that much time passes.
Sleep ==
    /\ pc = "sleep"
    /\ \E t \in TickTimes : t >= now + check_interval /\ now' = t
    /\ pc' = "top"
    /\ UNCHANGED <<active, closed, stats, is_running, pair, nextUid, sent, last>>
    /\ UNCHANGED <<frame, loops, ws, streamer>>

Next == Start \/ Stop \/ LoopTop \/ ProcessPair \/ Sleep

Spec == Init /\ [][Next]_vars

(* ------------- the scheduler over ticks 30 seconds apart --------------- *)

\* Quotes that leave the signals of GeneratedSetups open (the close of the
\* last candle, 1.0850), a tick at the target of BuyA, and no price at all.
SteadyFeeds ==
    {[tick |-> NoData, candle |-> 1085000], [tick |-> 1088000, candle |-> NoData],
     [tick |-> NoData, candle |-> NoData]}

\* The clock at three ticks in a row.
SteadyTimes == {0, check_interval, 2 * check_interval}

SteadyPair ==
    /\ pc = "tick"
    /\ process_symbol_timeframe(Pairs[pair].symbol, Pairs[pair].timeframe,
                                SteadyFeeds, Batches(Pairs[pair].symbol))
    /\ pair' = next_pair(pair, last'.raised).pair
    /\ pc' = next_pair(pair, last'.raised).pc
    /\ UNCHANGED <<is_running, now>>
    /\ UNCHANGED <<frame, loops, ws, streamer>>

SteadySleep ==
    /\ pc = "sleep"
    /\ \E t \in SteadyTimes : t >= now + check_interval /\ now' = t
    /\ pc' = "top"
    /\ UNCHANGED <<active, closed, stats, is_running, pair, nextUid, sent, last>>
    /\ UNCHANGED <<frame, loops, ws, streamer>>

SteadyNext == Start \/ Stop \/ LoopTop \/ SteadyPair \/ SteadySleep

SteadySpec == Init /\ [][SteadyNext]_vars

(* ------------- the scheduler that keeps ticking past the expiry -------- *)

\* A price at every fetch: the close of the last candle, which leaves the
\* signals of GeneratedSetups open, a tick at the target of BuyA, and a tick
\* between the stops of BuyC and BuyA.
LiveFeeds ==
    {[tick |-> NoData, candle |-> 1085000], [tick |-> 1088000, candle |-> NoData],
     [tick |-> 1083500, candle |-> NoData]}

\* The clock at the ticks: two ticks in a row, the very moment at which the
\* signals of the first tick expire, and two ticks after it.
LiveTimes ==
    {0, check_interval, ExpirySeconds, ExpirySeconds + check_interval,
     ExpirySeconds + 2 * check_interval}

LastTime == ExpirySeconds + 2 * check_interval

\* What generate_educational_signals returns: nothing, one signal, or two
\* that share the second of their creation, hence their signal_id.  The
\* clock stops at LastTime: signals are generated only while their expiry
\* lies before it.
LiveBatches(symbol) ==
    IF now + ExpirySeconds >= LastTime THEN {<<>>}
    ELSE IF symbol = "frxEURUSD"
    THEN {<<>>, <<Candidate(BuyA, FALSE)>>, <<Candidate(SellB, FALSE)>>,
          <<Candidate(BuyA, FALSE), Candidate(BuyC, TRUE)>>}
    ELSE {<<>>, <<Candidate(SellB, FALSE)>>}

LivePair ==
    /\ pc = "tick"
    /\ process_symbol_timeframe(Pairs[pair].symbol, Pairs[pair].timeframe,
                                LiveFeeds, LiveBatches(Pairs[pair].symbol))
    /\ pair' = next_pair(pair, last'.raised).pair
    /\ pc' = next_pair(pair, last'.raised).pc
    /\ UNCHANGED <<is_running, now>>
    /\ UNCHANGED <<frame, loops, ws, streamer>>

\* asyncio.sleep(check_interval); at LastTime the ticks go on at that reading.
LiveSleep ==
    /\ pc = "sleep"
    /\ \E t \in LiveTimes :
           /\ t >= now + check_interval \/ (now = LastTime /\ t = LastTime)
           /\ now' = t
    /\ pc' = "top"
    /\ UNCHANGED <<active, closed, stats, is_running, pair, nextUid, sent, last>>
    /\ UNCHANGED <<frame, loops, ws, streamer>>

\* start() is called and stop() never is.
LiveNext == Start \/ LoopTop \/ LivePair \/ LiveSleep

\* Weak fairness of the step of a pair, written out: the step is enabled
\* exactly when the loop is in a tick (in every such state some feed and
\* some batch give a next state), so either the loop is out of its tick
\* again and again or it takes the step again and again.
LivePairFair == []<>(pc # "tick") \/ []<><<LivePair>>_vars

\* The enabling condition the fairness above is written with.
LivePairEnabled == (pc = "tick") <=> ENABLED <<LivePair>>_vars

\* The event loop resumes the signal loop whenever the await it is suspended
\* in has completed: the price fetch and the broadcasts of a pair, the sleep.
LiveSpec ==
    Init /\ [][LiveNext]_vars
         /\ WF_vars(Start) /\ WF_vars(LoopTop) /\ WF_vars(LiveSleep) /\ LivePairFair

(* ---------------- the scheduler that is stopped and started ------------ *)

\* One pair of the tick, with a data feed that may have no price to give,
\* as after stop() has disconnected it.
HaltPair ==
    /\ pc = "tick"
    /\ process_symbol_timeframe(Pairs[pair].symbol, Pairs[pair].timeframe,
                                SteadyFeeds, LiveBatches(Pairs[pair].symbol))
    /\ pair' = next_pair(pair, last'.raised).pair
    /\ pc' = next_pair(pair, last'.raised).pc
    /\ UNCHANGED <<is_running, now>>
    /\ UNCHANGED <<frame, loops, ws, streamer>>

\* Weak fairness of HaltPair, written out as that of LivePair is.
HaltPairFair == []<>(pc # "tick") \/ []<><<HaltPair>>_vars

HaltPairEnabled == (pc = "tick") <=> ENABLED <<HaltPair>>_vars

HaltNext == Start \/ Stop \/ LoopTop \/ HaltPair \/ LiveSleep

\* start() and stop() are called at any moment, or never; the signal loop
\* is resumed whenever the await it is suspended in has completed.
HaltSpec ==
    Init /\ [][HaltNext]_vars
         /\ WF_vars(LoopTop) /\ WF_vars(LiveSleep) /\ HaltPairFair

(* ---------------- the scheduler, await by await ------------------------ *)

\* The signal loop yields at the price fetch, at every broadcast and at the
\* sleep; what it does between two of these points runs without interruption.
\* Here every action is one such stretch, so every state is a suspension
\* point of the loop, where stop() or any other coroutine may run.

\* The for loop of _check_exit_conditions from position k of the bucket up to
\* the first successful close, whose exit message is then awaited, or to the
\* end of the bucket.
RECURSIVE ExitRun(_, _, _, _, _)
ExitRun(g, symbol, current_price, t, k) ==
    IF k > Len(get_active_signals(g.active, symbol))
    THEN [gen |-> g, out |-> <<>>, k |-> k, done |-> TRUE]
    ELSE LET signal == get_active_signals(g.active, symbol)[k]
             exit_condition == check_exit_conditions(signal, current_price, t)
         IN  IF exit_condition = None
             THEN ExitRun(g, symbol, current_price, t, k + 1)
             ELSE LET res == close_signal(g, exit_condition.signal_id, exit_condition)
                  IN  IF res.ok
                      THEN [gen |-> res.gen, out |-> <<ExitEvent(signal, exit_condition)>>,
                            k |-> k + 1, done |-> FALSE]
                      ELSE ExitRun(res.gen, symbol, current_price, t, k + 1)

\* The for loop over new_signals from the candidates still to come up to the
\* first one admitted, whose message is then awaited, or to the end.
RECURSIVE AdmitRun(_, _, _, _, _, _, _)
AdmitRun(act, uid, prev_stamp, symbol, timeframe, rest, t) ==
    IF rest = <<>>
    THEN [active |-> act, out |-> <<>>, uid |-> uid, stamp |-> prev_stamp,
          rest |-> <<>>, done |-> TRUE]
    ELSE LET stamp == IF prev_stamp # 0 /\ Head(rest).same_stamp THEN prev_stamp ELSE uid + 1
             signal == NewSignal(uid + 1, stamp, symbol, timeframe, Head(rest).setup, t)
         IN  IF is_duplicate_signal(act, signal)
             THEN AdmitRun(act, uid, stamp, symbol, timeframe, Tail(rest), t)
             ELSE [active |-> add_signal(act, signal), out |-> <<EntryEvent(signal)>>,
                   uid |-> uid + 1, stamp |-> stamp, rest |-> Tail(rest), done |-> FALSE]

\* The pair is over: on to the next one, or to the sleep.
PairDone ==
    /\ pair' = next_pair(pair, FALSE).pair
    /\ pc' = next_pair(pair, FALSE).pc
    /\ frame' = NoFrame

\* The admission loop runs on with the candidates rest.
RunAdmit(act, prev_stamp, rest) ==
    LET ad == AdmitRun(act, nextUid, prev_stamp, Pairs[pair].symbol, Pairs[pair].timeframe,
                       rest, now)
    IN  /\ ad.uid <= MaxSignals
        /\ active' = ad.active
        /\ nextUid' = ad.uid
        /\ sent' = ad.out
        /\ IF ad.done
           THEN PairDone
           ELSE /\ pc' = "admit"
                /\ pair' = pair
                /\ frame' = [price |-> 0, k |-> 0, rest |-> ad.rest, stamp |-> ad.stamp]

\* The exit loop runs on from position k at the price fetched; when it is
\* through, generate_educational_signals is called (it may raise) and the
\* admission loop begins.
RunExits(current_price, k) ==
    LET ex == ExitRun(Gen(active, closed, stats), Pairs[pair].symbol, current_price, now, k)
    IN  /\ closed' = ex.gen.closed
        /\ stats' = ex.gen.stats
        /\ IF ~ex.done
           THEN /\ active' = ex.gen.active
                /\ sent' = ex.out
                /\ pc' = "exits"
                /\ pair' = pair
                /\ frame' = [price |-> current_price, k |-> ex.k, rest |-> <<>>, stamp |-> 0]
                /\ UNCHANGED nextUid
           ELSE \E batch \in Batches(Pairs[pair].symbol), raises \in BOOLEAN :
                    IF raises
                    THEN /\ batch = <<>>
                         /\ active' = ex.gen.active
                         /\ sent' = <<>>
                         /\ PairDone
                         /\ UNCHANGED nextUid
                    ELSE RunAdmit(ex.gen.active, 0, batch)

\* The price fetch of _process_symbol_timeframe returns.
FetchPrice ==
    /\ pc = "tick"
    /\ \E feed \in Feeds :
        IF get_current_price(feed) = NoPrice
        THEN /\ sent' = <<>>
             /\ PairDone
             /\ UNCHANGED <<active, closed, stats, nextUid>>
        ELSE RunExits(get_current_price(feed), 1)
    /\ last' = [op |-> "fetch"]
    /\ UNCHANGED <<is_running, now, loops, ws, streamer>>

\* The broadcast of an exit message returns.
ResumeExits ==
    /\ pc = "exits"
    /\ RunExits(frame.price, frame.k)
    /\ last' = [op |-> "exit_sent"]
    /\ UNCHANGED <<is_running, now, loops, ws, streamer>>

\* The broadcast of an admitted signal returns.
ResumeAdmit ==
    /\ pc = "admit"
    /\ RunAdmit(active, frame.stamp, frame.rest)
    /\ last' = [op |-> "entry_sent"]
    /\ UNCHANGED <<closed, stats, is_running, now, loops, ws, streamer>>

FineNext ==
    \/ Start
    \/ Stop
    \/ LoopTop
    \/ FetchPrice
    \/ ResumeExits
    \/ ResumeAdmit
    \/ Sleep

FineSpec == Init /\ [][FineNext]_vars

(* ------------- start() and stop() called in any sequence --------------- *)

\* What the data feed and the generator answer while several loops run: a
\* quote below every stop, or no price; one signal, or none.
LoopFeeds == {[tick |-> 1082000, candle |-> NoData], [tick |-> NoData, candle |-> NoData]}
LoopBatches(symbol) ==
    {<<>>, <<Candidate(IF symbol = "frxEURUSD" THEN BuyA ELSE SellB, FALSE)>>}

\* start(): sets the flag and runs a new _run_signal_loop coroutine, whether
\* or not one is running already.
StartCall ==
    /\ \E i \in LoopIds :
        /\ loops[i].pc = "none"
        /\ \A j \in LoopIds : j < i => loops[j].pc # "none"
        /\ loops' = [loops EXCEPT ![i] = [pc |-> "top", pair |-> 1, wake |-> 0]]
    /\ is_running' = TRUE
    /\ UNCHANGED <<active, closed, stats, pc, pair, now, nextUid, sent, last, frame, ws, streamer>>

\* stop(): clears the flag; the loops notice at their next test.
StopCall ==
    /\ is_running
    /\ is_running' = FALSE
    /\ UNCHANGED <<active, closed, stats, pc, pair, now, nextUid, sent, last, frame,
                   loops, ws, streamer>>

\* _run_signal_loop of coroutine i: the test of the while loop.
LoopTest(i) ==
    /\ loops[i].pc = "top"
    /\ loops' = [loops EXCEPT ![i] = IF is_running
                                     THEN [pc |-> "tick", pair |-> 1, wake |-> 0]
                                     ELSE NoLoop]
    /\ UNCHANGED <<active, closed, stats, is_running, pc, pair, now, nextUid, sent, last,
                   frame, ws, streamer>>

\* Coroutine i processes the next pair of its tick.
LoopPair(i) ==
    /\ loops[i].pc = "tick"
    /\ process_symbol_timeframe(Pairs[loops[i].pair].symbol, Pairs[loops[i].pair].timeframe,
                                LoopFeeds, LoopBatches(Pairs[loops[i].pair].symbol))
    /\ loops' = [loops EXCEPT ![i] =
                    [pc |-> next_pair(loops[i].pair, last'.raised).pc,
                     pair |-> next_pair(loops[i].pair, last'.raised).pair,
                     wake |-> IF next_pair(loops[i].pair, last'.raised).pc = "sleep"
                              THEN now + check_interval ELSE 0]]
    /\ UNCHANGED <<is_running, pc, pair, now, frame, ws, streamer>>

\* The sleep of coroutine i is over.
LoopWake(i) ==
    /\ loops[i].pc = "sleep"
    /\ \E t \in TickTimes : t >= loops[i].wake /\ t >= now /\ now' = t
    /\ loops' = [loops EXCEPT ![i] = [pc |-> "top", pair |-> 1, wake |-> 0]]
    /\ UNCHANGED <<active, closed, stats, is_running, pc, pair, nextUid, sent, last,
                   frame, ws, streamer>>

LoopsNext ==
    \/ StartCall
    \/ StopCall
    \/ \E i \in LoopIds : LoopTest(i)
    \/ \E i \in LoopIds : LoopPair(i)
    \/ \E i \in LoopIds : LoopWake(i)

LoopsSpec == Init /\ [][LoopsNext]_vars

(* --------------------------- the broadcaster --------------------------- *)

\* The orders in which a for loop can run through the set S.
Orders(S) ==
    {q \in [1..Cardinality(S) -> S] : \A i, j \in DOMAIN q : q[i] = q[j] => i = j}

\* What one send can do: succeed, raise ConnectionClosed, raise something
\* else, or never complete (a subscriber that does not read).
SendOutcomes == {"ok", "closed", "error", "never"}

\* send_to_all_clients in which an exception of client.send leaves the call.
after_send_raising(w, client, outcome) ==
    IF outcome = "ok"
    THEN [w EXCEPT !.got[client] = @ + 1, !.queue = Tail(@)]
    ELSE IF outcome = "closed"
    THEN [w EXCEPT !.disconnected = @ \cup {client}, !.queue = Tail(@)]
    ELSE IF outcome = "error"
    THEN [w EXCEPT !.call = "raised", !.queue = <<>>]
    ELSE [w EXCEPT !.call = "blocked"]

\* The body of the for loop of send_to_all_clients for one client: await
\* client.send(...) inside try/except.  A send that raises puts the client on
\* the disconnected list; one that never completes leaves the call waiting.
after_send(w, client, outcome) ==
    IF outcome = "ok"
    THEN [w EXCEPT !.got[client] = @ + 1, !.queue = Tail(@)]
    ELSE IF outcome \in {"closed", "error"}
    THEN [w EXCEPT !.disconnected = @ \cup {client}, !.queue = Tail(@)]
    ELSE [w EXCEPT !.call = "blocked"]

\* register_client(websocket): a new connection.
register_client(c) ==
    /\ c \notin ws.known
    /\ ws' = [ws EXCEPT !.clients = @ \cup {c}, !.known = @ \cup {c}]
    /\ UNCHANGED <<active, closed, stats, is_running, pc, pair, now, nextUid, sent, last,
                   frame, loops, streamer>>

\* unregister_client(websocket): the connection handler is over.
unregister_client(c) ==
    /\ c \in ws.clients
    /\ ws' = [ws EXCEPT !.clients = @ \ {c}]
    /\ UNCHANGED <<active, closed, stats, is_running, pc, pair, now, nextUid, sent, last,
                   frame, loops, streamer>>

\* send_to_all_clients(message) is called (by _broadcast_signal, which awaits
\* it): with no client it returns at once, else it copies the set and starts
\* its for loop, in some order.
BeginSend ==
    /\ ws.call \in {"idle", "returned"}
    /\ IF ws.clients = {}
       THEN ws' = [ws EXCEPT !.call = "returned", !.queue = <<>>, !.targets = {},
                             !.disconnected = {}, !.got = [c \in Clients |-> 0]]
       ELSE \E order \in Orders(ws.clients) :
               ws' = [ws EXCEPT !.call = "sending", !.queue = order,
                                !.targets = ws.clients, !.disconnected = {},
                                !.got = [c \in Clients |-> 0]]
    /\ last' = [op |-> "send_to_all_clients"]
    /\ UNCHANGED <<active, closed, stats, is_running, pc, pair, now, nextUid, sent,
                   frame, loops, streamer>>

\* The send to the next client of the copy.
SendToClient ==
    /\ ws.call = "sending"
    /\ ws.queue # <<>>
    /\ \E outcome \in SendOutcomes : ws' = after_send(ws, Head(ws.queue), outcome)
    /\ UNCHANGED <<active, closed, stats, is_running, pc, pair, now, nextUid, sent, last,
                   frame, loops, streamer>>

\* The for loop is through: the disconnected clients are discarded and the
\* call returns to _broadcast_signal.
FinishSend ==
    /\ ws.call = "sending"
    /\ ws.queue = <<>>
    /\ ws' = [ws EXCEPT !.clients = @ \ ws.disconnected, !.call = "returned"]
    /\ UNCHANGED <<active, closed, stats, is_running, pc, pair, now, nextUid, sent, last,
                   frame, loops, streamer>>

BroadcastNext ==
    \/ \E c \in Clients : register_client(c)
    \/ \E c \in Clients : unregister_client(c)
    \/ BeginSend
    \/ SendToClient
    \/ FinishSend

BroadcastSpec == Init /\ [][BroadcastNext]_vars

\* The same with every send that can complete completing, and the call
\* returning once its loop is through.
BroadcastLive ==
    Init /\ [][BroadcastNext]_vars /\ WF_vars(SendToClient) /\ WF_vars(FinishSend)

(* ------------------- the generator called directly --------------------- *)

\* The id of a signal nobody added.
UnknownId == <<"frxEURUSD", "H1", 0>>

\* add_signal(signal) with a signal built as the generators build one.  Two
\* signals built one after the other for the same symbol and timeframe can
\* carry the same timestamp, hence the same signal_id.
CallAddSignal ==
    /\ pc = "idle"
    /\ nextUid < MaxSignals
    /\ \E symbol \in Symbols, timeframe \in {"H1"}, twin \in AllSignals \cup {None} :
       \E setup \in CallerSetups(symbol) :
        /\ twin # None =>
              /\ twin.uid = nextUid
              /\ twin.symbol = symbol
              /\ twin.timeframe = timeframe
              /\ twin.expires_at = now + ExpirySeconds
        /\ LET stamp == IF twin # None THEN twin.signal_id[3] ELSE nextUid + 1
               signal == NewSignal(nextUid + 1, stamp, symbol, timeframe, setup, now)
           IN  /\ active' = add_signal(active, signal)
               /\ last' = [op |-> "add_signal"]
    /\ nextUid' = nextUid + 1
    /\ sent' = <<>>
    /\ UNCHANGED <<closed, stats, is_running, pc, pair, now>>
    /\ UNCHANGED <<frame, loops, ws, streamer>>

\* check_exit_conditions that closes the signal itself when an exit is due.
CallCheckExit_closing ==
    /\ pc = "idle"
    /\ \E signal \in AllSignals, current_price \in CallPrices :
        LET exit_signal == check_exit_conditions(signal, current_price, now)
            res == IF exit_signal = None THEN [gen |-> Gen(active, closed, stats)]
                   ELSE close_signal(Gen(active, closed, stats), signal.signal_id,
                                     exit_signal)
        IN  /\ active' = res.gen.active
            /\ closed' = res.gen.closed
            /\ stats' = res.gen.stats
            /\ last' = [op |-> "check_exit_conditions", status |-> signal.status,
                        reason |-> exit_signal.reason]
    /\ sent' = <<>>
    /\ UNCHANGED <<is_running, pc, pair, now, nextUid>>
    /\ UNCHANGED <<frame, loops, ws, streamer>>

\* check_exit_conditions(signal, current_price) on any signal there is, active
\* or closed.
CallCheckExit ==
    /\ pc = "idle"
    /\ \E signal \in AllSignals, current_price \in CallPrices :
        last' = [op |-> "check_exit_conditions", status |-> signal.status,
                 reason |-> check_exit_conditions(signal, current_price, now).reason]
    /\ sent' = <<>>
    /\ UNCHANGED <<active, closed, stats, is_running, pc, pair, now, nextUid>>
    /\ UNCHANGED <<frame, loops, ws, streamer>>

\* close_signal(signal_id, exit_signal) for the id of a closed signal or of no
\* signal at all.  (The id of a closed signal is also the id of an active
\* one when the two were built with the same timestamp.)
CallCloseSignal ==
    /\ pc = "idle"
    /\ \E signal_id \in {x.signal_id : x \in ClosedSignals} \cup {UnknownId} :
        LET exit_signal == ExitDict("stop_loss_hit", 1095000, -500, signal_id)
            res == close_signal(Gen(active, closed, stats), signal_id, exit_signal)
        IN  /\ active' = res.gen.active
            /\ closed' = res.gen.closed
            /\ stats' = res.gen.stats
            /\ last' = [op |-> "close_signal",
                        target |-> IF signal_id \in {x.signal_id : x \in ActiveSignals}
                                   THEN "active"
                                   ELSE IF signal_id = UnknownId THEN "unknown"
                                   ELSE "closed",
                        result |-> res.ok]
    /\ sent' = <<>>
    /\ UNCHANGED <<is_running, pc, pair, now, nextUid>>
    /\ UNCHANGED <<frame, loops, ws, streamer>>

\* _check_exit_conditions(symbol, current_price)
CallExitPass ==
    /\ pc = "idle"
    /\ \E symbol \in Symbols, current_price \in CallPrices :
        LET exits == check_exit_pass(Gen(active, closed, stats), symbol, current_price, now)
        IN  /\ active' = exits.gen.active
            /\ closed' = exits.gen.closed
            /\ stats' = exits.gen.stats
            /\ sent' = exits.out
            /\ last' = [op |-> "exit_pass"]
    /\ UNCHANGED <<is_running, pc, pair, now, nextUid>>
    /\ UNCHANGED <<frame, loops, ws, streamer>>

\* Time passes between two calls.
CallLater ==
    /\ pc = "idle"
    /\ \E t \in CallTimes : t > now /\ now' = t
    /\ last' = [op |-> "later"]
    /\ sent' = <<>>
    /\ UNCHANGED <<active, closed, stats, is_running, pc, pair, nextUid>>
    /\ UNCHANGED <<frame, loops, ws, streamer>>

CallNext ==
    \/ CallAddSignal
    \/ CallCheckExit
    \/ CallCloseSignal
    \/ CallExitPass
    \/ CallLater

CallSpec == Init /\ [][CallNext]_vars

(* ------------------------------ FVGDetector ---------------------------- *)

\* A candle is a record [open, high, low, close] of prices; a series is a
\* sequence of candles, oldest first.  Python indexes a list from 0:
\* At(candles, i) is candles[i].
At(candles, i) == candles[i + 1]

Max(S) == CHOOSE x \in S : \A y \in S : y <= x

\* round() of n / d for d > 0 and n of either sign.
RoundSigned(n, d) == IF n >= 0 THEN RoundHalfEven(n, d) ELSE 0 - RoundHalfEven(0 - n, d)

\* round(x, 5) of the price n / d.
Round5(n, d) == 10 * RoundSigned(n, 10 * d)

min_gap_size == 200

NoGap == [type |-> "none", gap_top |-> 0, gap_bottom |-> 0, gap_size |-> 0]

check_bullish_fvg_any_size(high1, low1, high2, low2, high3, low3) ==
    IF low1 > high3
    THEN [type |-> "bullish", gap_top |-> high3, gap_bottom |-> low1,
          gap_size |-> low1 - high3]
    ELSE NoGap

check_bullish_fvg(high1, low1, high2, low2, high3, low3) ==
    IF low1 > high3 /\ low1 - high3 >= min_gap_size
    THEN [type |-> "bullish", gap_top |-> high3, gap_bottom |-> low1,
          gap_size |-> low1 - high3]
    ELSE NoGap

check_bearish_fvg(high1, low1, high2, low2, high3, low3) ==
    IF high1 < low3 /\ low3 - high1 >= min_gap_size
    THEN [type |-> "bearish", gap_top |-> low3, gap_bottom |-> high1,
          gap_size |-> low3 - high1]
    ELSE NoGap

\* The candles after the third one of the gap, scanned in order: the first
\* whose high reaches gap_bottom (bullish) or whose low reaches gap_top
\* (bearish) fills the gap.
RECURSIVE FirstFill(_, _, _)
FirstFill(candles, i, fvg_data) ==
    IF i >= Len(candles) THEN -1
    ELSE IF fvg_data.type = "bullish" /\ At(candles, i).high >= fvg_data.gap_bottom THEN i
    ELSE IF fvg_data.type # "bullish" /\ At(candles, i).low <= fvg_data.gap_top THEN i
    ELSE FirstFill(candles, i + 1, fvg_data)

\* _check_fvg_status that begins its scan one candle late.
check_fvg_status_late_scan(candles, formation_index, fvg_data) ==
    LET i == FirstFill(candles, formation_index + 2, fvg_data)
    IN  IF i = -1
        THEN [status |-> "active", fill_price |-> 0, fill_index |-> -1]
        ELSE [status |-> "filled",
              fill_price |-> IF fvg_data.type = "bullish" THEN fvg_data.gap_bottom
                             ELSE fvg_data.gap_top,
              fill_index |-> i]

check_fvg_status(candles, formation_index, fvg_data) ==
    LET i == FirstFill(candles, formation_index + 1, fvg_data)
    IN  IF i = -1
        THEN [status |-> "active", fill_price |-> 0, fill_index |-> -1]
        ELSE [status |-> "filled",
              fill_price |-> IF fvg_data.type = "bullish" THEN fvg_data.gap_bottom
                             ELSE fvg_data.gap_top,
              fill_index |-> i]

\* risk_reward_1 and risk_reward_2 are kept to two decimals and counted here
\* in hundredths.  The risk is half the gap, so reward / risk is
\* 2 * reward / gap_size.
calculate_fvg_targets(fvg_data, fvg_type) ==
    LET gap_top == fvg_data.gap_top
        gap_bottom == fvg_data.gap_bottom
        gap_size == fvg_data.gap_size
    IN  IF fvg_type = "bullish"
        THEN LET entry == gap_bottom
                 take_profit_1 == gap_top
                 take_profit_2 == gap_top + gap_size
             IN  [entry |-> Round5(entry, 1),
                  stop_loss |-> Round5(2 * gap_bottom - gap_size, 2),
                  take_profit_1 |-> Round5(take_profit_1, 1),
                  take_profit_2 |-> Round5(take_profit_2, 1),
                  risk_reward_1 |-> RoundSigned(200 * (take_profit_1 - entry), gap_size),
                  risk_reward_2 |-> RoundSigned(200 * (take_profit_2 - entry), gap_size)]
        ELSE LET entry == gap_top
                 take_profit_1 == gap_bottom
                 take_profit_2 == gap_bottom - gap_size
             IN  [entry |-> Round5(entry, 1),
                  stop_loss |-> Round5(2 * gap_top + gap_size, 2),
                  take_profit_1 |-> Round5(take_profit_1, 1),
                  take_profit_2 |-> Round5(take_profit_2, 1),
                  risk_reward_1 |-> RoundSigned(200 * (entry - take_profit_1), gap_size),
                  risk_reward_2 |-> RoundSigned(200 * (entry - take_profit_2), gap_size)]

\* The true range of candles[i] against the close before it.
TrueRange(candles, i) ==
    Max({At(candles, i).high - At(candles, i).low,
         Abs(At(candles, i).high - At(candles, i - 1).close),
         Abs(At(candles, i).low - At(candles, i - 1).close)})

RECURSIVE SumTrueRange(_, _, _)
SumTrueRange(candles, i, stop) ==
    IF i >= stop THEN 0 ELSE TrueRange(candles, i) + SumTrueRange(candles, i + 1, stop)

\* The mean true range of candles[max(0, index - 10):index], as the
\* fraction sum / n; 0.001 when the slice has fewer than 5 candles.
calculate_recent_volatility(candles, index) ==
    LET start_idx == IF index - 10 > 0 THEN index - 10 ELSE 0
    IN  IF index - start_idx < 5
        THEN [sum |-> 1000, n |-> 1]
        ELSE [sum |-> SumTrueRange(candles, start_idx + 1, index),
              n |-> index - start_idx - 1]

\* confidence is kept to two decimals and counted here in hundredths:
\* 0.6 * min(gap_size / 0.001, 1) + 0.4 * min(volatility / 0.002, 1).
calculate_fvg_confidence(fvg_data, candles, formation_index) ==
    LET v == calculate_recent_volatility(candles, formation_index)
        size == IF fvg_data.gap_size < 1000 THEN fvg_data.gap_size ELSE 1000
        vol == IF v.sum < 2000 * v.n THEN v.sum ELSE 2000 * v.n
        c == RoundHalfEven(120 * v.n * size + 40 * vol, 2000 * v.n)
    IN  IF c < 100 THEN c ELSE 100

create_fvg_record(candles, index, fvg_data, fvg_type) ==
    LET status == check_fvg_status(candles, index, fvg_data)
    IN  [id |-> <<index, fvg_type>>,
         type |-> fvg_type,
         formation_index |-> index - 1,
         gap_top |-> fvg_data.gap_top,
         gap_bottom |-> fvg_data.gap_bottom,
         gap_size |-> Round5(fvg_data.gap_size, 1),
         status |-> status.status,
         fill_price |-> status.fill_price,
         fill_index |-> status.fill_index,
         target_levels |-> calculate_fvg_targets(fvg_data, fvg_type),
         confidence |-> calculate_fvg_confidence(fvg_data, candles, index)]

\* The records of the window (index - 2, index - 1, index): none or one.
analyze_single_fvg(candles, index) ==
    IF index < 2 \/ index >= Len(candles) - 1 THEN <<>>
    ELSE LET candle1 == At(candles, index - 2)
             candle2 == At(candles, index - 1)
             candle3 == At(candles, index)
             bullish_fvg == check_bullish_fvg(candle1.high, candle1.low, candle2.high,
                                              candle2.low, candle3.high, candle3.low)
             bearish_fvg == check_bearish_fvg(candle1.high, candle1.low, candle2.high,
                                              candle2.low, candle3.high, candle3.low)
         IN  IF bullish_fvg # NoGap
             THEN <<create_fvg_record(candles, index, bullish_fvg, "bullish")>>
             ELSE IF bearish_fvg # NoGap
             THEN <<create_fvg_record(candles, index, bearish_fvg, "bearish")>>
             ELSE <<>>

RECURSIVE ScanFvgs(_, _)
ScanFvgs(candles, i) ==
    IF i >= Len(candles) - 1 THEN <<>>
    ELSE analyze_single_fvg(candles, i) \o ScanFvgs(candles, i + 1)

detect_fvgs(candles) ==
    IF Len(candles) < 5
    THEN [fvgs |-> <<>>, active_fvgs |-> <<>>, filled_fvgs |-> <<>>,
          analysis_complete |-> FALSE]
    ELSE LET fvgs == ScanFvgs(candles, 2)
         IN  [fvgs |-> fvgs,
              active_fvgs |-> SelectSeq(fvgs, LAMBDA fvg : fvg.status = "active"),
              filled_fvgs |-> SelectSeq(fvgs, LAMBDA fvg : fvg.status = "filled"),
              analysis_complete |-> TRUE]

(* --------------------------- MarketBiasAnalyzer ------------------------ *)

default_ema_periods(timeframe) ==
    IF timeframe = "H4" THEN 50 ELSE IF timeframe = "D1" THEN 20 ELSE 200

\* ema = price * multiplier + ema * (1 - multiplier) with multiplier
\* 2 / (period + 1), over prices[k..], counted in 0.000000001 above prices[1]
\* and rounded down at each step.
EmaFrom(prices, period, k, ema) ==
    LET after[j \in (k - 1)..Len(prices)] ==
            IF j = k - 1 THEN ema
            ELSE (2 * 1000 * (prices[j] - prices[1]) + (period - 1) * after[j - 1])
                 \div (period + 1)
    IN  after[Len(prices)]

\* calculate_ema that averages a series of any length.
calculate_ema_any_length(prices, period) ==
    IF prices = <<>> THEN 0 ELSE prices[1] + (EmaFrom(prices, period, 2, 0) \div 1000)

calculate_ema(prices, period) ==
    IF Len(prices) < period
    THEN IF prices = <<>> THEN 0 ELSE prices[Len(prices)]
    ELSE prices[1] + (EmaFrom(prices, period, 2, 0) \div 1000)

\* confidence is kept to two decimals and counted here in hundredths.
determine_bias(candles, timeframe) ==
    IF candles = <<>>
    THEN [bias |-> "neutral", confidence |-> 0, ema_value |-> 0, current_price |-> 0]
    ELSE LET closes == [k \in 1..Len(candles) |-> candles[k].close]
             current_price == closes[Len(closes)]
             ema_value == calculate_ema(closes, default_ema_periods(timeframe))
             price_vs_ema == current_price - ema_value
             capped == IF Abs(price_vs_ema) < 2000 THEN Abs(price_vs_ema) ELSE 2000
         IN  [bias |-> IF Abs(price_vs_ema) < 500 THEN "neutral"
                       ELSE IF price_vs_ema > 0 THEN "bullish" ELSE "bearish",
              confidence |-> IF Abs(price_vs_ema) < 500 THEN 30
                             ELSE RoundHalfEven(100 * capped, 2000),
              ema_value |-> Round5(ema_value, 1),
              current_price |-> Round5(current_price, 1)]

RECURSIVE SumConfidence(_, _)
SumConfidence(results, timeframes) ==
    IF timeframes = {} THEN 0
    ELSE LET timeframe == CHOOSE t \in timeframes : TRUE
         IN  results[timeframe].confidence
             + SumConfidence(results, timeframes \ {timeframe})

\* candles_by_tf is a function from the timeframes given to their candles.
get_multi_timeframe_bias(candles_by_tf) ==
    LET results == [timeframe \in DOMAIN candles_by_tf |->
                        determine_bias(candles_by_tf[timeframe], timeframe)]
        overall_bias == [b \in {"bullish", "bearish", "neutral"} |->
                            Cardinality({timeframe \in DOMAIN results :
                                             results[timeframe].bias = b})]
        max_count == Max({overall_bias[b] : b \in DOMAIN overall_bias})
        total_confidence == SumConfidence(results, DOMAIN results)
    IN  [overall_bias |-> IF max_count = overall_bias["bullish"] THEN "bullish"
                          ELSE IF max_count = overall_bias["bearish"] THEN "bearish"
                          ELSE "neutral",
         overall_confidence |-> IF DOMAIN candles_by_tf = {} THEN 0
                                ELSE RoundHalfEven(total_confidence,
                                                   Cardinality(DOMAIN candles_by_tf)),
         timeframe_analysis |-> results,
         bias_distribution |-> overall_bias]

(* ---------------------------- LiquidityAnalyzer ------------------------ *)

liquidity_threshold == 1000
min_candles_for_analysis == 20

\* strength is kept to two decimals and counted here in hundredths:
\* min(|level - mean of the four neighbours| / 0.01, 1).
calculate_level_strength(level_price, surrounding) ==
    LET d == Abs(4 * level_price - (surrounding[1] + surrounding[2] + surrounding[3]
                                    + surrounding[4]))
    IN  RoundHalfEven(100 * (IF d < 40000 THEN d ELSE 40000), 40000)

\* _find_swing_highs that takes a high equal to a neighbour as a swing.
RECURSIVE find_swing_highs_not_strict(_, _)
find_swing_highs_not_strict(highs, i) ==
    IF i >= Len(highs) - 2 THEN <<>>
    ELSE (IF /\ At(highs, i) >= At(highs, i - 1) /\ At(highs, i) >= At(highs, i - 2)
             /\ At(highs, i) >= At(highs, i + 1) /\ At(highs, i) >= At(highs, i + 2)
          THEN <<[price |-> At(highs, i), index |-> i,
                  strength |-> calculate_level_strength(At(highs, i),
                                   <<At(highs, i - 2), At(highs, i - 1),
                                     At(highs, i + 1), At(highs, i + 2)>>)]>>
          ELSE <<>>) \o find_swing_highs_not_strict(highs, i + 1)

RECURSIVE find_swing_highs(_, _)
find_swing_highs(highs, i) ==
    IF i >= Len(highs) - 2 THEN <<>>
    ELSE (IF /\ At(highs, i) > At(highs, i - 1) /\ At(highs, i) > At(highs, i - 2)
             /\ At(highs, i) > At(highs, i + 1) /\ At(highs, i) > At(highs, i + 2)
          THEN <<[price |-> At(highs, i), index |-> i,
                  strength |-> calculate_level_strength(At(highs, i),
                                   <<At(highs, i - 2), At(highs, i - 1),
                                     At(highs, i + 1), At(highs, i + 2)>>)]>>
          ELSE <<>>) \o find_swing_highs(highs, i + 1)

RECURSIVE find_swing_lows(_, _)
find_swing_lows(lows, i) ==
    IF i >= Len(lows) - 2 THEN <<>>
    ELSE (IF /\ At(lows, i) < At(lows, i - 1) /\ At(lows, i) < At(lows, i - 2)
             /\ At(lows, i) < At(lows, i + 1) /\ At(lows, i) < At(lows, i + 2)
          THEN <<[price |-> At(lows, i), index |-> i,
                  strength |-> calculate_level_strength(At(lows, i),
                                   <<At(lows, i - 2), At(lows, i - 1),
                                     At(lows, i + 1), At(lows, i + 2)>>)]>>
          ELSE <<>>) \o find_swing_lows(lows, i + 1)

\* list.sort(key = strength, reverse = True): strongest first, levels of
\* equal strength in the order they had.
RECURSIVE SortByStrength(_)
SortByStrength(levels) ==
    IF levels = <<>> THEN <<>>
    ELSE LET x == levels[Len(levels)]
             sorted == SortByStrength(SubSeq(levels, 1, Len(levels) - 1))
             keep == Cardinality({k \in 1..Len(sorted) : sorted[k].strength >= x.strength})
         IN  SubSeq(sorted, 1, keep) \o <<x>> \o SubSeq(sorted, keep + 1, Len(sorted))

Top5(levels) == SubSeq(levels, 1, IF Len(levels) < 5 THEN Len(levels) ELSE 5)

Level(swing, current_price) ==
    [price |-> swing.price, strength |-> swing.strength,
     distance |-> Round5(Abs(current_price - swing.price), 1)]

identify_buy_side_liquidity(swing_lows, current_price) ==
    LET below == SelectSeq(swing_lows, LAMBDA low :
                     /\ low.price < current_price
                     /\ current_price - low.price > liquidity_threshold)
    IN  Top5(SortByStrength([k \in 1..Len(below) |-> Level(below[k], current_price)]))

identify_sell_side_liquidity(swing_highs, current_price) ==
    LET above == SelectSeq(swing_highs, LAMBDA high :
                     /\ high.price > current_price
                     /\ high.price - current_price > liquidity_threshold)
    IN  Top5(SortByStrength([k \in 1..Len(above) |-> Level(above[k], current_price)]))

\* max(levels, key = strength): the first of the strongest; <<>> is None.
find_strongest_level(levels) ==
    IF levels = <<>> THEN <<>>
    ELSE <<levels[Min({k \in 1..Len(levels) :
                        \A j \in 1..Len(levels) : levels[j].strength <= levels[k].strength})]>>

\* find_liquidity_levels that analyses any series long enough to hold a swing.
find_liquidity_levels_any_length(candles) ==
    IF Len(candles) < 5
    THEN [buy_side_liquidity |-> <<>>, sell_side_liquidity |-> <<>>,
          strongest_buy |-> <<>>, strongest_sell |-> <<>>, analysis_complete |-> FALSE]
    ELSE LET highs == [k \in 1..Len(candles) |-> candles[k].high]
             lows == [k \in 1..Len(candles) |-> candles[k].low]
             current_price == candles[Len(candles)].close
             buy_side == identify_buy_side_liquidity(find_swing_lows(lows, 2), current_price)
             sell_side == identify_sell_side_liquidity(find_swing_highs(highs, 2),
                                                       current_price)
         IN  [buy_side_liquidity |-> buy_side, sell_side_liquidity |-> sell_side,
              strongest_buy |-> find_strongest_level(buy_side),
              strongest_sell |-> find_strongest_level(sell_side),
              analysis_complete |-> TRUE]

find_liquidity_levels(candles) ==
    IF Len(candles) < min_candles_for_analysis
    THEN [buy_side_liquidity |-> <<>>, sell_side_liquidity |-> <<>>,
          strongest_buy |-> <<>>, strongest_sell |-> <<>>, analysis_complete |-> FALSE]
    ELSE LET highs == [k \in 1..Len(candles) |-> candles[k].high]
             lows == [k \in 1..Len(candles) |-> candles[k].low]
             current_price == candles[Len(candles)].close
             buy_side == identify_buy_side_liquidity(find_swing_lows(lows, 2), current_price)
             sell_side == identify_sell_side_liquidity(find_swing_highs(highs, 2),
                                                       current_price)
         IN  [buy_side_liquidity |-> buy_side, sell_side_liquidity |-> sell_side,
              strongest_buy |-> find_strongest_level(buy_side),
              strongest_sell |-> find_strongest_level(sell_side),
              analysis_complete |-> TRUE]

(* -------------------- Silver Bullet setups and suggestions ------------- *)

\* _check_bias_alignment that turns away only the opposite bias.
check_bias_alignment_unless_opposite(fvg, bias_data) ==
    LET bias == IF "bias" \in DOMAIN bias_data THEN bias_data.bias ELSE "neutral"
    IN  \/ fvg.type = "bullish" /\ bias # "bearish"
        \/ fvg.type = "bearish" /\ bias # "bullish"

\* bias_data.get('bias', 'neutral')
check_bias_alignment(fvg, bias_data) ==
    LET bias == IF "bias" \in DOMAIN bias_data THEN bias_data.bias ELSE "neutral"
    IN  \/ fvg.type = "bullish" /\ bias = "bullish"
        \/ fvg.type = "bearish" /\ bias = "bearish"

\* _check_liquidity_proximity that looks at the levels of both sides.
check_liquidity_proximity_either_side(fvg, liquidity_levels) ==
    LET fvg_price == IF fvg.type = "bullish" THEN fvg.gap_bottom ELSE fvg.gap_top
        relevant_liquidity == liquidity_levels.buy_side_liquidity
                              \o liquidity_levels.sell_side_liquidity
    IN  /\ liquidity_levels.analysis_complete
        /\ \E k \in 1..Len(relevant_liquidity) :
               Abs(fvg_price - relevant_liquidity[k].price) < 2000

\* Valid when the nearest level of the gap's side lies within 0.002 of the
\* gap's entry side.
check_liquidity_proximity(fvg, liquidity_levels) ==
    LET fvg_price == IF fvg.type = "bullish" THEN fvg.gap_bottom ELSE fvg.gap_top
        relevant_liquidity == IF fvg.type = "bullish"
                              THEN liquidity_levels.buy_side_liquidity
                              ELSE liquidity_levels.sell_side_liquidity
    IN  /\ liquidity_levels.analysis_complete
        /\ \E k \in 1..Len(relevant_liquidity) :
               Abs(fvg_price - relevant_liquidity[k].price) < 2000

\* quality_score is kept to two decimals and counted here in hundredths.
calculate_setup_quality(fvg, liquidity_levels, bias_data) ==
    LET gap == IF fvg.gap_size < 1000 THEN fvg.gap_size ELSE 1000
        strongest == IF fvg.type = "bullish" THEN liquidity_levels.strongest_buy
                     ELSE liquidity_levels.strongest_sell
        liquidity_strength == IF liquidity_levels.analysis_complete /\ strongest # <<>>
                              THEN strongest[1].strength ELSE 50
        bias_confidence == IF "confidence" \in DOMAIN bias_data
                           THEN bias_data.confidence ELSE 50
    IN  RoundHalfEven(400 * fvg.confidence + 30 * gap + 200 * bias_confidence
                      + 100 * liquidity_strength, 1000)

evaluate_silver_bullet_setup(fvg, liquidity_levels, bias_data) ==
    IF ~check_bias_alignment(fvg, bias_data) THEN <<>>
    ELSE IF ~check_liquidity_proximity(fvg, liquidity_levels) THEN <<>>
    ELSE <<[fvg |-> fvg,
            quality_score |-> calculate_setup_quality(fvg, liquidity_levels, bias_data)]>>

RECURSIVE EvaluateAll(_, _, _)
EvaluateAll(fvgs, liquidity_levels, bias_data) ==
    IF fvgs = <<>> THEN <<>>
    ELSE evaluate_silver_bullet_setup(Head(fvgs), liquidity_levels, bias_data)
         \o EvaluateAll(Tail(fvgs), liquidity_levels, bias_data)

\* get_silver_bullet_setups that evaluates filled gaps as well.
get_silver_bullet_setups_all_fvgs(candles, liquidity_levels, bias_data) ==
    LET fvg_data == detect_fvgs(candles)
    IN  IF ~fvg_data.analysis_complete THEN <<>>
        ELSE EvaluateAll(fvg_data.fvgs, liquidity_levels, bias_data)

get_silver_bullet_setups(candles, liquidity_levels, bias_data) ==
    LET fvg_data == detect_fvgs(candles)
    IN  IF ~fvg_data.analysis_complete THEN <<>>
        ELSE EvaluateAll(fvg_data.active_fvgs, liquidity_levels, bias_data)

min_setup_quality == 70
min_risk_reward == 200

Suggestion(setup) ==
    LET targets == setup.fvg.target_levels
    IN  [setup_id |-> setup.fvg.id, type |-> setup.fvg.type,
         entry_price |-> targets.entry, stop_loss |-> targets.stop_loss,
         take_profit_1 |-> targets.take_profit_1,
         take_profit_2 |-> targets.take_profit_2,
         risk_reward_1 |-> targets.risk_reward_1,
         risk_reward_2 |-> targets.risk_reward_2,
         setup_quality |-> setup.quality_score]

\* _generate_trade_suggestions without the risk-reward test.
generate_trade_suggestions_unfiltered(setups) ==
    [k \in 1..Len(setups) |-> Suggestion(setups[k])]

generate_trade_suggestions(setups) ==
    LET passing == SelectSeq(setups, LAMBDA setup :
                       \/ setup.fvg.target_levels.risk_reward_1 >= min_risk_reward
                       \/ setup.fvg.target_levels.risk_reward_2 >= min_risk_reward)
    IN  [k \in 1..Len(passing) |-> Suggestion(passing[k])]

\* analyze_market_setup on the candles the data streamer returned.
analyze_market_setup(candles, timeframe) ==
    LET bias_analysis == determine_bias(candles, timeframe)
        liquidity_analysis == find_liquidity_levels(candles)
        fvg_analysis == detect_fvgs(candles)
        silver_bullet_setups == get_silver_bullet_setups(candles, liquidity_analysis,
                                                         bias_analysis)
        high_quality_setups == SelectSeq(silver_bullet_setups, LAMBDA setup :
                                   setup.quality_score >= min_setup_quality)
    IN  [bias |-> bias_analysis,
         liquidity |-> liquidity_analysis,
         fvgs |-> fvg_analysis,
         all_setups |-> silver_bullet_setups,
         high_quality_setups |-> high_quality_setups,
         trade_suggestions |-> generate_trade_suggestions(high_quality_setups)]

\* Every candle carries the four prices the analysers read.
WellFormed(candles) ==
    \A k \in 1..Len(candles) : {"open", "high", "low", "close"} \subseteq DOMAIN candles[k]

\* analyze_market_setup that analyses an empty series as it came.
engine_analyze_market_setup_no_empty_check(source, fallback, timeframe) ==
    LET candles == IF source.kind = "raises" THEN fallback ELSE source.candles
    IN  IF candles = <<>> \/ ~WellFormed(candles)
        THEN [success |-> FALSE]
        ELSE [success |-> TRUE, candles |-> candles,
              analysis |-> analyze_market_setup(candles, timeframe)]

\* SilverBulletEngine.analyze_market_setup with its data source: source is
\* what get_historical_candles does (raises, or returns candles), fallback
\* what _generate_fallback_candles would build.  The inner try falls back
\* when the source raises, the test after it when the series is empty; an
\* error of the analysis itself (candles[-1] of an empty list, a candle
\* without a price) is caught by the outer try and reported as success False.
engine_analyze_market_setup(source, fallback, timeframe) ==
    LET fetched == IF source.kind = "raises" THEN fallback ELSE source.candles
        candles == IF fetched = <<>> THEN fallback ELSE fetched
    IN  IF candles = <<>> \/ ~WellFormed(candles)
        THEN [success |-> FALSE]
        ELSE [success |-> TRUE, candles |-> candles,
              analysis |-> analyze_market_setup(candles, timeframe)]

\* generate_educational_signals, given what engine.analyze_market_setup
\* returned: the fallback generator's signals when the analysis did not
\* succeed, else one signal per suggestion whose first target is at least 20
\* pips from its entry.
generate_educational_signals(analysis, fallback_signals) ==
    IF ~analysis.success THEN fallback_signals
    ELSE LET kept == SelectSeq(analysis.analysis.trade_suggestions,
                         LAMBDA suggestion :
                             Abs(suggestion.take_profit_1 - suggestion.entry_price)
                                 >= 10 * MinPipsTarget)
         IN  [k \in 1..Len(kept) |->
                  [entry |-> kept[k].entry_price, stop_loss |-> kept[k].stop_loss,
                   take_profit |-> kept[k].take_profit_1]]

(* ------------------------- the analysis, on a series ------------------- *)

Candle(o, h, l, c) == [open |-> o, high |-> h, low |-> l, close |-> c]

\* A candle of one pip either side of its level.
Bar(level) == Candle(level - 50, level + 100, level - 100, level + 50)

\* Levels 3, 4 and 5 pips above the lowest: between two bars the gap is
\* missing, below min_gap_size, equal to it, or above it.
BarLevels == {1085000, 1085300, 1085400, 1085500}

SeriesOf(S, n) == [1..n -> S]

ShortSeries == UNION {SeriesOf({Bar(level) : level \in BarLevels}, n) : n \in 4..MaxCandles}

\* Ten candles: a fall from 1.0895 to 1.0882 across candles 0..2, a swing
\* low of 1.08755 at candle 4, closes that rise to 1.0894 at the end.
TenCandles ==
    << Candle(1089700, 1089900, 1089500, 1089600),
       Candle(1089500, 1089700, 1087900, 1088000),
       Candle(1088000, 1088200, 1087700, 1087800),
       Candle(1087800, 1088000, 1087700, 1087800),
       Candle(1087800, 1088000, 1087550, 1087800),
       Candle(1087800, 1088000, 1087700, 1087800),
       Candle(1087800, 1088000, 1087700, 1087800),
       Candle(1087800, 1088500, 1087700, 1088400),
       Candle(1088400, 1089000, 1088000, 1088900),
       Candle(1088900, 1089450, 1088500, 1089400) >>

\* The same movement over 24 candles, enough for the period-20 average and
\* for the swing levels.
LongCandles ==
    << Candle(1089700, 1089900, 1089500, 1089600),
       Candle(1089500, 1089700, 1087900, 1088000),
       Candle(1088000, 1088200, 1087700, 1087800) >>
    \o [k \in 1..7 |-> Candle(1087800, 1088000, 1087700, 1087800)]
    \o << Candle(1087800, 1088000, 1087550, 1087800) >>
    \o [k \in 1..10 |-> Candle(1087800, 1088000, 1087700, 1087800)]
    \o << Candle(1087800, 1088500, 1087700, 1088400),
          Candle(1088400, 1089000, 1088000, 1088900),
          Candle(1088900, 1089450, 1088500, 1089400) >>

\* 24 candles the other way up: a rise from 1.0873 to 1.0883 across candles
\* 0..2, a swing high of 1.09025 at candle 10, closes that fall to 1.0884.
RiseCandles ==
    << Candle(1087200, 1087300, 1087000, 1087200),
       Candle(1087200, 1089700, 1087100, 1089600),
       Candle(1089600, 1089900, 1088300, 1089800) >>
    \o [k \in 1..7 |-> Candle(1089800, 1089900, 1089600, 1089800)]
    \o << Candle(1089800, 1090250, 1089600, 1089800) >>
    \o [k \in 1..10 |-> Candle(1089800, 1089900, 1089600, 1089800)]
    \o << Candle(1089800, 1089900, 1089200, 1089300),
          Candle(1089300, 1089500, 1088700, 1088800),
          Candle(1088800, 1089100, 1088350, 1088400) >>

Quiet == Candle(1087800, 1088000, 1087700, 1087800)

\* The series that hold a quiet candle at some of the places of free and
\* the base's candle everywhere else.
Variants(base, free) ==
    {[k \in 1..Len(base) |-> IF k \in Q THEN Quiet ELSE base[k]] : Q \in SUBSET free}

AnalysisInputs ==
    (ShortSeries \X {"H1"})
    \cup (Variants(TenCandles, 1..Len(TenCandles)) \X {"H1", "D1"})
    \cup (Variants(LongCandles, {1, 3, 11, 22, 24}) \X {"M15", "H1", "H4", "D1"})
    \cup (Variants(RiseCandles, {1, 3, 11, 22, 24}) \X {"M15", "H1", "H4", "D1"})

AnalysisInit ==
    /\ frame = NoFrame
    /\ loops = [i \in LoopIds |-> NoLoop]
    /\ ws = NoBroadcast
    /\ streamer = NoStreamer
    /\ active = [s \in Symbols |-> <<>>]
    /\ closed = <<>>
    /\ stats = [total_pips |-> 0, winning_trades |-> 0, losing_trades |-> 0,
                total_trades |-> 0, win_rate |-> 0]
    /\ is_running = FALSE
    /\ pc = "idle"
    /\ pair = 1
    /\ now = 0
    /\ nextUid = 0
    /\ sent = <<>>
    /\ \E input \in AnalysisInputs :
           last = [op |-> "candles", candles |-> input[1], timeframe |-> input[2]]

CallDetectFvgs ==
    /\ last.op = "candles"
    /\ last' = [op |-> "detect_fvgs", candles |-> last.candles,
                timeframe |-> last.timeframe,
                result |-> detect_fvgs(last.candles)]
    /\ UNCHANGED <<active, closed, stats, is_running, pc, pair, now, nextUid, sent,
                   frame, loops, ws, streamer>>

CallAnalyzeMarketSetup ==
    /\ last.op = "candles"
    /\ last' = [op |-> "analyze_market_setup", candles |-> last.candles,
                timeframe |-> last.timeframe,
                result |-> analyze_market_setup(last.candles, last.timeframe)]
    /\ UNCHANGED <<active, closed, stats, is_running, pc, pair, now, nextUid, sent,
                   frame, loops, ws, streamer>>

\* One more candle arrives and detect_fvgs runs again on the longer series.
AppendCandle ==
    /\ last.op \in {"detect_fvgs", "append_candle"}
    /\ Len(last.candles) < MaxCandles
    /\ \E level \in BarLevels :
           last' = [op |-> "append_candle",
                    candles |-> Append(last.candles, Bar(level)),
                    timeframe |-> last.timeframe,
                    result |-> detect_fvgs(Append(last.candles, Bar(level))),
                    before |-> last.result]
    /\ UNCHANGED <<active, closed, stats, is_running, pc, pair, now, nextUid, sent,
                   frame, loops, ws, streamer>>

\* The bias dictionaries a caller hands to _evaluate_silver_bullet_setup:
\* each bias, and dictionaries without the 'bias' or the 'confidence' key.
BiasInputs ==
    {[bias |-> b, confidence |-> 80] : b \in {"bullish", "bearish", "neutral"}}
    \cup {[confidence |-> 80], [bias |-> "bullish"], [bias |-> "bearish"]}

LevelAt(price) == [price |-> price, strength |-> 80, distance |-> 1500]

\* The lists of one side around an entry price: none, one level 19 pips
\* below, one exactly 20 pips above, a far level followed by a near one.
SideLists(entry) ==
    {<<>>, <<LevelAt(entry - 1900)>>, <<LevelAt(entry + 2000)>>,
     <<LevelAt(entry - 5000), LevelAt(entry + 1999)>>}

LiquidityInputs(entry) ==
    {[buy_side_liquidity |-> buy, sell_side_liquidity |-> sell,
      strongest_buy |-> find_strongest_level(buy),
      strongest_sell |-> find_strongest_level(sell),
      analysis_complete |-> complete] :
         buy \in SideLists(entry), sell \in SideLists(entry), complete \in BOOLEAN}

\* _evaluate_silver_bullet_setup on a detected FVG.
CallEvaluateSetup ==
    /\ last.op = "detect_fvgs"
    /\ \E k \in 1..Len(last.result.fvgs) :
         LET fvg == last.result.fvgs[k]
             entry == IF fvg.type = "bullish" THEN fvg.gap_bottom ELSE fvg.gap_top
         IN  \E bias_data \in BiasInputs, liquidity_levels \in LiquidityInputs(entry) :
                 last' = [op |-> "evaluate_silver_bullet_setup", fvg |-> fvg,
                          bias_data |-> bias_data, liquidity_levels |-> liquidity_levels,
                          result |-> evaluate_silver_bullet_setup(fvg, liquidity_levels,
                                                                  bias_data)]
    /\ UNCHANGED <<active, closed, stats, is_running, pc, pair, now, nextUid, sent,
                   frame, loops, ws, streamer>>

\* _find_swing_highs and _find_swing_lows on the highs and lows of a series
\* and on those of its mirror image, high' = -low and low' = -high.
CallFindSwings ==
    /\ last.op = "candles"
    /\ LET n == Len(last.candles)
           highs == [k \in 1..n |-> last.candles[k].high]
           lows == [k \in 1..n |-> last.candles[k].low]
           mirrored_highs == [k \in 1..n |-> 0 - lows[k]]
           mirrored_lows == [k \in 1..n |-> 0 - highs[k]]
       IN  last' = [op |-> "find_swings", candles |-> last.candles,
                    swing_highs |-> find_swing_highs(highs, 2),
                    swing_lows |-> find_swing_lows(lows, 2),
                    mirrored_swing_highs |-> find_swing_highs(mirrored_highs, 2),
                    mirrored_swing_lows |-> find_swing_lows(mirrored_lows, 2)]
    /\ UNCHANGED <<active, closed, stats, is_running, pc, pair, now, nextUid, sent,
                   frame, loops, ws, streamer>>

AnalysisNext ==
    \/ CallDetectFvgs \/ CallAnalyzeMarketSetup \/ AppendCandle \/ CallEvaluateSetup
    \/ CallFindSwings

AnalysisSpec == AnalysisInit /\ [][AnalysisNext]_vars

(* ------------------- the bias of several timeframes -------------------- *)

\* A series of n bars that moves by step from one bar to the next.
Trend(n, step) == [k \in 1..n |-> Bar(1085000 + step * k)]

\* Flat, rising and falling series: 24 candles reach the EMA period of D1
\* only, 52 that of H4 as well; neither reaches that of H1, whose EMA is
\* then the last close.
TrendPool ==
    {Trend(24, 0)} \cup {Trend(n, step) : n \in {24, 52}, step \in {-100, 100}}

BiasTimeframes == {"H1", "H4", "D1"}

BiasInit ==
    /\ frame = NoFrame /\ loops = [i \in LoopIds |-> NoLoop] /\ ws = NoBroadcast
    /\ streamer = NoStreamer
    /\ active = [s \in Symbols |-> <<>>] /\ closed = <<>>
    /\ stats = [total_pips |-> 0, winning_trades |-> 0, losing_trades |-> 0,
                total_trades |-> 0, win_rate |-> 0]
    /\ is_running = FALSE /\ pc = "idle" /\ pair = 1 /\ now = 0 /\ nextUid = 0
    /\ sent = <<>>
    /\ \E given \in SUBSET BiasTimeframes : \E candles_by_tf \in [given -> TrendPool] :
           last = [op |-> "candles_by_tf", candles_by_tf |-> candles_by_tf]

CallMultiTimeframeBias ==
    /\ last.op = "candles_by_tf"
    /\ last' = [op |-> "get_multi_timeframe_bias", candles_by_tf |-> last.candles_by_tf,
                result |-> get_multi_timeframe_bias(last.candles_by_tf)]
    /\ UNCHANGED <<active, closed, stats, is_running, pc, pair, now, nextUid, sent,
                   frame, loops, ws, streamer>>

BiasNext == CallMultiTimeframeBias

BiasSpec == BiasInit /\ [][BiasNext]_vars

(* --------------------- the analysis and its data source ---------------- *)

\* RiseCandles with a first candle low enough for a gap of 23 pips.
WideCandles ==
    [RiseCandles EXCEPT ![1] = Candle(1085900, 1086000, 1085700, 1085900),
                        ![2] = Candle(1085900, 1089700, 1085800, 1089600)]

\* What get_historical_candles can do: raise, return nothing, return candles
\* without prices, or return a series of 1, 3, 4, 5, 10, 19 or 24 candles.
SourceOutcomes ==
    {[kind |-> "raises", candles |-> <<>>],
     [kind |-> "returns", candles |-> <<>>],
     [kind |-> "returns", candles |-> <<[timestamp |-> 0], [timestamp |-> 1]>>]}
    \cup {[kind |-> "returns", candles |-> series] :
              series \in {SubSeq(LongCandles, 1, n) : n \in {1, 3, 4, 5, 19, 24}}
                         \cup {SubSeq(RiseCandles, 1, n) : n \in {4, 5, 19, 24}}
                         \cup {TenCandles, WideCandles}}

\* Series _generate_fallback_candles can build.
FallbackCandles == {LongCandles, WideCandles}

\* Signals _generate_fallback_signals can return.
FallbackSignals == {<<>>, <<BuyA>>, <<SellB>>, <<BuyA, SellB>>}

SourceInit ==
    /\ frame = NoFrame /\ loops = [i \in LoopIds |-> NoLoop] /\ ws = NoBroadcast
    /\ streamer = NoStreamer
    /\ active = [s \in Symbols |-> <<>>] /\ closed = <<>>
    /\ stats = [total_pips |-> 0, winning_trades |-> 0, losing_trades |-> 0,
                total_trades |-> 0, win_rate |-> 0]
    /\ is_running = FALSE /\ pc = "idle" /\ pair = 1 /\ now = 0 /\ nextUid = 0
    /\ sent = <<>>
    /\ \E source \in SourceOutcomes, fallback \in FallbackCandles,
          timeframe \in {"H1", "D1"}, fallback_signals \in FallbackSignals :
           last = [op |-> "request", source |-> source, fallback |-> fallback,
                   timeframe |-> timeframe, fallback_signals |-> fallback_signals]

CallEngine ==
    /\ last.op = "request"
    /\ last' = [op |-> "analyze_market_setup", source |-> last.source,
                fallback |-> last.fallback, timeframe |-> last.timeframe,
                result |-> engine_analyze_market_setup(last.source, last.fallback,
                                                       last.timeframe)]
    /\ UNCHANGED <<active, closed, stats, is_running, pc, pair, now, nextUid, sent,
                   frame, loops, ws, streamer>>

CallGenerateSignals ==
    /\ last.op = "request"
    /\ \E analysis \in {engine_analyze_market_setup(last.source, last.fallback,
                                                    last.timeframe)} :
           last' = [op |-> "generate_educational_signals", source |-> last.source,
                    fallback |-> last.fallback, timeframe |-> last.timeframe,
                    fallback_signals |-> last.fallback_signals,
                    analysis |-> analysis,
                    result |-> generate_educational_signals(analysis,
                                                            last.fallback_signals)]
    /\ UNCHANGED <<active, closed, stats, is_running, pc, pair, now, nextUid, sent,
                   frame, loops, ws, streamer>>

SourceNext == CallEngine \/ CallGenerateSignals

SourceSpec == SourceInit /\ [][SourceNext]_vars

(* ------------------- the two origins of a signal ----------------------- *)

\* _determine_trade_style(pips_target), the target given in price units.
determine_trade_style(units) ==
    IF units <= 3000 THEN "scalp" ELSE IF units <= 10000 THEN "swing" ELSE "session"

\* _get_current_session(), from the hour of the clock.
get_current_session(t) ==
    LET hour == (t \div 3600) % 24
    IN  IF hour < 8 THEN "Asian" ELSE IF hour < 16 THEN "London" ELSE "New York"

\* _get_base_price(symbol)
get_base_price(symbol) ==
    IF symbol = "frxGBPUSD" THEN 1275000 ELSE 1085000

\* _generate_educational_content(suggestion, analysis, pips_target): each text
\* stands as the values it is formatted from.
generate_educational_content(suggestion, analysis, units) ==
    [reason |-> <<suggestion.type, "FVG", analysis.bias.bias, "bias and liquidity alignment">>,
     explanation |-> <<suggestion.type, "Fair Value Gap", analysis.bias.bias, units,
                       determine_trade_style(units), suggestion.setup_quality>>,
     beginner_tip |-> <<"gap area", IF suggestion.type = "bullish" THEN "buy" ELSE "sell">>,
     pattern_description |-> <<suggestion.type, "Fair Value Gap", "gap">>,
     risk_warning |-> <<"gap", IF suggestion.type = "bullish" THEN "below" ELSE "above">>]

\* _generate_educational_content_fallback(direction, pips_target), with the
\* pattern and the session it drew.
generate_educational_content_fallback(direction, units, pattern, session) ==
    [reason |-> <<direction, pattern, session, "session bias alignment">>,
     explanation |-> <<direction, pattern, direction, session, RoundPips(units),
                       determine_trade_style(units)>>,
     beginner_tip |-> <<pattern, IF direction = "bullish" THEN "buy" ELSE "sell">>,
     pattern_description |-> <<direction, pattern, "gap or area of interest">>,
     risk_warning |-> <<"setup", IF direction = "bullish" THEN "below" ELSE "above">>]

\* The signal generate_educational_signals builds for a suggestion.
educational_signal(uid, stamp, symbol, timeframe, suggestion, analysis, t) ==
    LET units == Abs(suggestion.take_profit_1 - suggestion.entry_price)
        educational_content == generate_educational_content(suggestion, analysis, units)
    IN  NewSignal(uid, stamp, symbol, timeframe,
                  Setup(suggestion.entry_price, suggestion.stop_loss,
                        suggestion.take_profit_1), t)
        @@ [type |-> "buy",
            pips_target |-> RoundPips(units),
            trade_style |-> determine_trade_style(units),
            confidence |-> suggestion.setup_quality,
            reason |-> educational_content.reason,
            explanation |-> educational_content.explanation,
            beginner_tip |-> educational_content.beginner_tip,
            pattern_description |-> educational_content.pattern_description,
            risk_warning |-> educational_content.risk_warning,
            session |-> get_current_session(t),
            timestamp |-> t]

\* The signal _generate_fallback_signals builds from one round of draws:
\* the direction, the three distances, the confidence, the pattern and the
\* session.
fallback_signal(uid, stamp, symbol, timeframe, draw, t) ==
    LET entry == get_base_price(symbol) + draw.entry_offset
        stop_loss == IF draw.is_bullish THEN entry - draw.stop_distance
                     ELSE entry + draw.stop_distance
        take_profit == IF draw.is_bullish THEN entry + draw.target_distance
                       ELSE entry - draw.target_distance
        direction == IF draw.is_bullish THEN "bullish" ELSE "bearish"
        units == Abs(take_profit - entry)
        educational_content == generate_educational_content_fallback(
                                   direction, units, draw.pattern, draw.session)
    IN  NewSignal(uid, stamp, symbol, timeframe,
                  Setup(Round5(entry, 1), Round5(stop_loss, 1), Round5(take_profit, 1)), t)
        @@ [type |-> IF draw.is_bullish THEN "buy" ELSE "sell",
            pips_target |-> RoundPips(units),
            trade_style |-> determine_trade_style(units),
            confidence |-> draw.confidence,
            reason |-> educational_content.reason,
            explanation |-> educational_content.explanation,
            beginner_tip |-> educational_content.beginner_tip,
            pattern_description |-> educational_content.pattern_description,
            risk_warning |-> educational_content.risk_warning,
            session |-> get_current_session(t),
            timestamp |-> t]

\* _generate_fallback_signals with a mark of their origin on its signals.
generate_fallback_signals_flagged(uid, symbol, timeframe, draws, t) ==
    LET kept == SelectSeq(draws, LAMBDA draw : draw.target_distance >= 10 * MinPipsTarget)
    IN  [k \in 1..Len(kept) |->
             fallback_signal(uid + k, uid + k, symbol, timeframe, kept[k], t)
             @@ [synthetic |-> TRUE]]

\* _generate_fallback_signals(symbol, timeframe): one signal per round of
\* draws whose target is at least 20 pips away; no round at all stands for
\* the 70% of calls that return nothing and for num_signals = 0.
generate_fallback_signals(uid, symbol, timeframe, draws, t) ==
    LET kept == SelectSeq(draws, LAMBDA draw : draw.target_distance >= 10 * MinPipsTarget)
    IN  [k \in 1..Len(kept) |->
             fallback_signal(uid + k, uid + k, symbol, timeframe, kept[k], t)]

\* generate_educational_signals(symbol, timeframe) with every field of its
\* signals: the fallback generator's when the analysis raised or did not
\* succeed, else one signal per suggestion of at least 20 pips.
generate_signals_of(uid, symbol, timeframe, outcome, draws, t) ==
    IF outcome.kind = "raises" \/ ~outcome.result.success
    THEN generate_fallback_signals(uid, symbol, timeframe, draws, t)
    ELSE LET kept == SelectSeq(outcome.result.analysis.trade_suggestions,
                         LAMBDA suggestion :
                             Abs(suggestion.take_profit_1 - suggestion.entry_price)
                                 >= 10 * MinPipsTarget)
         IN  [k \in 1..Len(kept) |->
                  educational_signal(uid + k, uid + k, symbol, timeframe, kept[k],
                                     outcome.result.analysis, t)]

\* WideCandles 23 pips lower, around the base price of frxEURUSD.
LowCandles ==
    [k \in DOMAIN WideCandles |->
         Candle(WideCandles[k].open - 2300, WideCandles[k].high - 2300,
                WideCandles[k].low - 2300, WideCandles[k].close - 2300)]

Draw(is_bullish, entry_offset, stop_distance, target_distance, pattern) ==
    [is_bullish |-> is_bullish, entry_offset |-> entry_offset,
     stop_distance |-> stop_distance, target_distance |-> target_distance,
     confidence |-> 75, pattern |-> pattern, session |-> "London"]

\* Rounds of draws inside the ranges of random.uniform.
FallbackDraws ==
    {<<>>,
     <<Draw(FALSE, 1000, 1150, 2300, "Fair Value Gap (FVG)")>>,
     <<Draw(FALSE, 1000, 1150, 2300, "Order Block")>>,
     <<Draw(FALSE, 1004, 1150, 2296, "Order Block")>>,
     <<Draw(TRUE, -500, 2000, 3000, "Breaker Block")>>,
     <<Draw(FALSE, 100, 1500, 3000, "Liquidity Pool Raid"),
       Draw(TRUE, 0, 2000, 6000, "Mitigation Block")>>}

\* What the engine's analysis can come to: an exception, no success, or the
\* analysis of a series.
OriginOutcomes ==
    {[kind |-> "raises", result |-> [success |-> FALSE]],
     [kind |-> "returns", result |-> [success |-> FALSE]]}
    \cup {[kind |-> "returns",
           result |-> [success |-> TRUE, analysis |-> analyze_market_setup(candles, "D1")]] :
              candles \in {LowCandles, WideCandles, LongCandles}}

\* Active signals the generator may already hold: none, one next to the
\* entries of LowCandles and of the draws, one far from them.
OriginHeld ==
    {<<>>,
     <<NewSignal(1, 1, "frxEURUSD", "D1", Setup(1086500, 1088000, 1083000), 0)>>,
     <<NewSignal(1, 1, "frxEURUSD", "D1", Setup(1090000, 1091000, 1088000), 0)>>}

OriginPrices == {1083700, 1085000, 1087150, 1088000}
OriginTimes == {ExpirySeconds, ExpirySeconds + 30000}

NoRun == [signals |-> <<>>, gen |-> Gen([s \in Symbols |-> <<>>], <<>>, 0), out |-> <<>>]

\* Two generators in the same state are asked for signals at the same
\* moment; the analysis succeeds for one and the other falls back.
OriginInit ==
    /\ frame = NoFrame /\ loops = [i \in LoopIds |-> NoLoop] /\ ws = NoBroadcast
    /\ streamer = NoStreamer
    /\ active = [s \in Symbols |-> <<>>] /\ closed = <<>>
    /\ stats = [total_pips |-> 0, winning_trades |-> 0, losing_trades |-> 0,
                total_trades |-> 0, win_rate |-> 0]
    /\ is_running = FALSE /\ pc = "idle" /\ pair = 1 /\ now = 0 /\ nextUid = 0
    /\ sent = <<>>
    /\ \E analysed \in OriginOutcomes, failed \in OriginOutcomes, draws \in FallbackDraws,
          held \in OriginHeld, t \in {0, 30000} :
           /\ analysed.result.success
           /\ ~failed.result.success
           /\ last = [op |-> "request", analysed |-> analysed, failed |-> failed,
                      draws |-> draws, t |-> t,
                      gen |-> Gen([active EXCEPT !["frxEURUSD"] = held], closed, stats)]

\* A run of one generator: the signals it was given, its collections and
\* the messages it broadcast.
Run(signals, g, out) == [signals |-> signals, gen |-> g, out |-> out]

\* generate_educational_signals in both generators.
CallBothGenerate ==
    /\ last.op = "request"
    /\ last' = [op |-> "generated", t |-> last.t,
                analysed |-> Run(generate_signals_of(1, "frxEURUSD", "D1", last.analysed,
                                                     last.draws, last.t),
                                 last.gen, <<>>),
                fallback |-> Run(generate_signals_of(1, "frxEURUSD", "D1", last.failed,
                                                     last.draws, last.t),
                                 last.gen, <<>>)]
    /\ UNCHANGED <<active, closed, stats, is_running, pc, pair, now, nextUid, sent,
                   frame, loops, ws, streamer>>

\* The loop of _process_symbol_timeframe over the signals of a run.
RECURSIVE AdmitSignals(_, _)
AdmitSignals(run, k) ==
    IF k > Len(run.signals) THEN run
    ELSE IF is_duplicate_signal(run.gen.active, run.signals[k])
         THEN AdmitSignals(run, k + 1)
         ELSE AdmitSignals(Run(run.signals,
                               Gen(add_signal(run.gen.active, run.signals[k]),
                                   run.gen.closed, run.gen.stats),
                               Append(run.out, EntryEvent(run.signals[k]))),
                           k + 1)

CallBothAdmit ==
    /\ last.op = "generated"
    /\ last' = [op |-> "admitted", t |-> last.t,
                analysed |-> AdmitSignals(last.analysed, 1),
                fallback |-> AdmitSignals(last.fallback, 1)]
    /\ UNCHANGED <<active, closed, stats, is_running, pc, pair, now, nextUid, sent,
                   frame, loops, ws, streamer>>

\* The exit pass of a later tick in a run.
LaterExitPass(run, current_price, t) ==
    LET exits == check_exit_pass(run.gen, "frxEURUSD", current_price, t)
    IN  Run(run.signals, exits.gen, run.out \o exits.out)

CallBothExit ==
    /\ last.op \in {"admitted", "exited"}
    /\ \E current_price \in OriginPrices, t \in OriginTimes :
           /\ t > last.t
           /\ last' = [op |-> "exited", t |-> t,
                       analysed |-> LaterExitPass(last.analysed, current_price, t),
                       fallback |-> LaterExitPass(last.fallback, current_price, t)]
    /\ UNCHANGED <<active, closed, stats, is_running, pc, pair, now, nextUid, sent,
                   frame, loops, ws, streamer>>

OriginNext == CallBothGenerate \/ CallBothAdmit \/ CallBothExit

OriginSpec == OriginInit /\ [][OriginNext]_vars

(* --------------------------- DerivDataStreamer ------------------------- *)

\* connect(), when it returns: websockets.connect raised (refused), all went
\* well (connected), or the socket opened and authenticate() raised.  The
\* socket, the flag and the counter are set as soon as the socket is open;
\* the message handler is started only when nothing raised.
connect(st, outcome) ==
    IF outcome = "refused" THEN [st EXCEPT !.is_connected = FALSE]
    ELSE [st EXCEPT !.sockets = @ + 1,
                    !.websocket = st.sockets + 1,
                    !.is_connected = (outcome = "connected"),
                    !.reconnect_attempts = 0,
                    !.handlers = IF outcome = "connected"
                                 THEN Append(@, [socket |-> st.sockets + 1,
                                                 pc |-> "listening", delay |-> 0,
                                                 wake |-> 0, ended |-> "no"])
                                 ELSE @]

ConnectOutcomes(st) ==
    {"refused"} \cup (IF st.sockets < MaxSockets THEN {"connected", "auth_raises"} ELSE {})

\* The handlers asleep before their reconnection, and the first moment one
\* of them wakes.
Sleeping(st) == {h \in DOMAIN st.handlers : st.handlers[h].pc = "sleeping"}

\* _handle_reconnection() up to its sleep, at time t.
handle_reconnection(st, h, t) ==
    IF st.reconnect_attempts < max_reconnect_attempts
    THEN LET delay == reconnect_delay * (st.reconnect_attempts + 1)
         IN  [st EXCEPT !.reconnect_attempts = @ + 1,
                        !.handlers[h].pc = "sleeping",
                        !.handlers[h].delay = delay,
                        !.handlers[h].wake = t + delay]
    ELSE [st EXCEPT !.handlers[h].pc = "done", !.handlers[h].ended = "gave_up"]

\* The service calls connect(): start() of the scheduler does.
Connect ==
    /\ streamer.calls < MaxConnects
    /\ \E outcome \in ConnectOutcomes(streamer) :
           streamer' = [connect(streamer, outcome) EXCEPT !.calls = @ + 1]
    /\ UNCHANGED <<active, closed, stats, is_running, pc, pair, now, nextUid, sent, last,
                   frame, loops, ws>>

\* _message_handler: the iteration over the socket raises ConnectionClosed,
\* gap seconds after the last event and before any sleeping handler wakes.
ConnectionClosed ==
    \E h \in DOMAIN streamer.handlers, gap \in LossGaps :
        /\ streamer.handlers[h].pc = "listening"
        /\ \A other \in Sleeping(streamer) : now + gap <= streamer.handlers[other].wake
        /\ now + gap <= LastInstant
        /\ now' = now + gap
        /\ streamer' = handle_reconnection([streamer EXCEPT !.is_connected = FALSE],
                                           h, now + gap)
        /\ UNCHANGED <<active, closed, stats, is_running, pc, pair, nextUid, sent, last,
                       frame, loops, ws>>

\* _message_handler: json.loads or _process_message raises; the error is
\* logged and the handler returns.
HandlerRaises ==
    \E h \in DOMAIN streamer.handlers :
        /\ streamer.handlers[h].pc = "listening"
        /\ streamer' = [streamer EXCEPT !.handlers[h].pc = "done",
                                        !.handlers[h].ended = "error"]
        /\ UNCHANGED <<active, closed, stats, is_running, pc, pair, now, nextUid, sent, last,
                       frame, loops, ws>>

\* _handle_reconnection() after its sleep: connect() once, whose result is
\* not looked at, and the handler returns.
Reconnect ==
    \E h \in Sleeping(streamer) :
        /\ \A other \in Sleeping(streamer) :
               streamer.handlers[h].wake <= streamer.handlers[other].wake
        /\ now' = IF streamer.handlers[h].wake > now THEN streamer.handlers[h].wake ELSE now
        /\ \E outcome \in ConnectOutcomes(streamer) :
               streamer' = connect([streamer EXCEPT !.handlers[h] =
                                                  [@ EXCEPT !.pc = "done", !.delay = 0,
                                                            !.wake = 0, !.ended = outcome]],
                                   outcome)
        /\ UNCHANGED <<active, closed, stats, is_running, pc, pair, nextUid, sent, last,
                       frame, loops, ws>>

StreamerNext == Connect \/ ConnectionClosed \/ HandlerRaises \/ Reconnect

StreamerSpec == Init /\ [][StreamerNext]_vars

(* ------------------------------- claims -------------------------------- *)

ActiveUids == {x.uid : x \in ActiveSignals}
ClosedUids == {x.uid : x \in ClosedSignals}

\* C1: in one exit-check pass for a symbol, every signal that was active for
\* that symbol when the pass began and whose target, stop or expiry condition
\* holds at the fetched price is closed in that same pass: once the pass is
\* over none of them is left in the active index.  (last.due holds exactly
\* those signals.)
C1_EveryDueSignalClosedInPass ==
    last.op = "pair" => \A u \in last.due : u \notin ActiveUids

\* C2: when no current price can be obtained for a symbol, the pair is not
\* skipped: the exit conditions are still evaluated and new-signal generation
\* still runs.
C2_NoPriceStillProcessed ==
    (last.op = "pair" /\ ~last.priced) => (last.exits_checked /\ last.generated)

\* How often the signal object uid occurs in a list of signals.
Occurrences(seq, uid) == Cardinality({i \in DOMAIN seq : seq[i].uid = uid})

ActiveOccurrences(uid) ==
    Occurrences(active["frxEURUSD"], uid) + Occurrences(active["frxGBPUSD"], uid)

C3_Lifecycle ==
    \A u \in 1..nextUid :
        \/ /\ ActiveOccurrences(u) = 1
           /\ Occurrences(closed, u) = 0
           /\ \A x \in ActiveSignals : x.uid = u => x.status = "active"
        \/ /\ ActiveOccurrences(u) = 0
           /\ Occurrences(closed, u) = 1
           /\ \A x \in ClosedSignals : x.uid = u => x.status = "closed"

C3_AppendOnly ==
    /\ Len(closed') >= Len(closed)
    /\ SubSeq(closed', 1, Len(closed)) = closed
    /\ \A u \in ClosedUids : u \notin {x.uid : x \in UNION {{active'[s][i] :
                                    i \in DOMAIN active'[s]} : s \in Symbols}}

\* C3: every signal is closed at most once and never re-opened: each signal
\* that was added is either in the active index, once, with status 'active'
\* and not in the closed log, or in the closed log, exactly once, with status
\* 'closed' and not in the active index; and the closed log only grows by
\* appending: what it held stays, in the same order, and no closed signal
\* comes back into the active index.
C3_ClosedOnceNeverReopened == [](C3_Lifecycle) /\ [][C3_AppendOnly]_vars

\* C3 witness: close_signal has just been called with the id of a signal that
\* sits in the closed log, while another signal is active.
C3_Witness ==
    /\ last.op = "close_signal"
    /\ last.target = "closed"
    /\ closed # <<>>
    /\ ActiveSignals # {}

(* Claims about check_exit_conditions: the conditions it is compared with. *)

IsBullish(x) == x.take_profit > x.entry

TargetReached(x, p) ==
    IF IsBullish(x) THEN p >= x.take_profit ELSE p <= x.take_profit

StopReached(x, p) ==
    IF IsBullish(x) THEN p <= x.stop_loss ELSE p >= x.stop_loss

MovedFavourably(x, p) ==
    IF IsBullish(x) THEN p > x.entry ELSE p < x.entry

\* The signal the most recent exit pass closed last, if its own evaluation
\* closed it (the pass broadcast its exit).
ClosedByLastPass(c) ==
    /\ last.op = "exit_pass"
    /\ sent # <<>>
    /\ closed # <<>>
    /\ c = closed[Len(closed)]
    /\ sent[Len(sent)].uid = c.uid

\* C4: for every active signal and price, check_exit_conditions answers
\* 'target_hit' exactly when the price has reached or passed take_profit in
\* the favourable direction (bullish, i.e. take_profit > entry: price >=
\* take_profit; bearish: price <= take_profit), and then exit_price is
\* take_profit and pips_gained is |take_profit - entry| * 10000, a positive
\* number (in tenths of a pip: ten times pips_gained is the distance in units).
C4_TargetHit ==
    \A x \in ActiveSignals : \A p \in CallPrices :
        LET r == check_exit_conditions(x, p, now)
        IN  /\ (r.reason = "target_hit") <=> TargetReached(x, p)
            /\ TargetReached(x, p) =>
                  /\ r.exit_price = x.take_profit
                  /\ r.pips_gained * 10 = Abs(x.take_profit - x.entry)
                  /\ r.pips_gained > 0

\* C4 witness: the worked example.  The signal with entry 1.1000, stop 1.0950
\* and target 1.1100 was closed by an exit pass as target_hit at 1.1100 with
\* 100.0 pips, which is also the answer for a tick of 1.1105.
C4_Witness ==
    \E c \in ClosedSignals :
        /\ ClosedByLastPass(c)
        /\ c.entry = 1100000 /\ c.stop_loss = 1095000 /\ c.take_profit = 1110000
        /\ c.exit_reason = "target_hit" /\ c.exit_price = 1110000 /\ c.pips_gained = 1000
        /\ check_exit_conditions([c EXCEPT !.status = "active"], 1110500, now)
               = ExitDict("target_hit", 1110000, 1000, c.signal_id)

\* C5: for every active signal whose target is not reached at the price,
\* check_exit_conditions answers 'stop_loss_hit' exactly when the price has
\* reached or passed stop_loss in the adverse direction (bullish: price <=
\* stop_loss; bearish: price >= stop_loss), and then exit_price is stop_loss
\* and pips_gained is -|stop_loss - entry| * 10000.
C5_StopLossHit ==
    \A x \in ActiveSignals : \A p \in CallPrices :
        LET r == check_exit_conditions(x, p, now)
        IN  ~TargetReached(x, p) =>
                /\ (r.reason = "stop_loss_hit") <=> StopReached(x, p)
                /\ StopReached(x, p) =>
                      /\ r.exit_price = x.stop_loss
                      /\ r.pips_gained * 10 = -Abs(x.stop_loss - x.entry)

\* C5 witness: the worked example closed by an exit pass as stop_loss_hit at
\* 1.0950 with -50.0 pips, which is also the answer for a tick of 1.0940.
C5_Witness ==
    \E c \in ClosedSignals :
        /\ ClosedByLastPass(c)
        /\ c.entry = 1100000 /\ c.stop_loss = 1095000 /\ c.take_profit = 1110000
        /\ c.exit_reason = "stop_loss_hit" /\ c.exit_price = 1095000 /\ c.pips_gained = -500
        /\ check_exit_conditions([c EXCEPT !.status = "active"], 1094000, now)
               = ExitDict("stop_loss_hit", 1095000, -500, c.signal_id)

\* C6: for every active signal for which neither target nor stop is reached
\* at the price: when the clock is past expires_at, check_exit_conditions
\* answers 'time_expired' with exit_price the price itself and pips_gained
\* equal, to the one decimal kept, to |price - entry| * 10000 taken positive
\* when the price moved in the signal's favour (bullish: price > entry;
\* bearish: price < entry) and negative otherwise; when the clock is not past
\* expires_at it answers no exit.
C6_TimeExpired ==
    \A x \in ActiveSignals : \A p \in CallPrices :
        LET r == check_exit_conditions(x, p, now)
            signed == IF MovedFavourably(x, p) THEN Abs(p - x.entry) ELSE -Abs(p - x.entry)
        IN  (~TargetReached(x, p) /\ ~StopReached(x, p)) =>
                /\ now > x.expires_at =>
                      /\ r.reason = "time_expired"
                      /\ r.exit_price = p
                      /\ 2 * Abs(r.pips_gained * 10 - signed) <= 10
                      /\ MovedFavourably(x, p) => r.pips_gained >= 0
                      /\ ~MovedFavourably(x, p) => r.pips_gained <= 0
                /\ now <= x.expires_at => r = None

\* C6 witness: a bullish signal closed by an exit pass as time_expired at
\* 1.100126, above its entry of 1.1000, with pips_gained 1.3.
C6_Witness ==
    \E c \in ClosedSignals :
        /\ ClosedByLastPass(c)
        /\ c.exit_reason = "time_expired"
        /\ IsBullish(c)
        /\ c.entry = 1100000
        /\ c.exit_price = 1100126
        /\ c.pips_gained = 13
        /\ now > c.expires_at

\* C7: one evaluation gives at most one reason, the first that matches in the
\* order target, stop, expiry: whenever the price has reached take_profit the
\* answer is target_hit, otherwise whenever it has reached stop_loss the
\* answer is stop_loss_hit, also for a signal that is past expires_at;
\* time_expired is answered only when neither is reached.
C7_FirstMatchWins ==
    \A x \in ActiveSignals : \A p \in CallPrices :
        LET r == check_exit_conditions(x, p, now)
        IN  /\ r.reason \in {"target_hit", "stop_loss_hit", "time_expired", "none"}
            /\ (now > x.expires_at /\ TargetReached(x, p)) => r.reason = "target_hit"
            /\ (now > x.expires_at /\ ~TargetReached(x, p) /\ StopReached(x, p))
                   => r.reason = "stop_loss_hit"
            /\ r.reason = "time_expired" => (~TargetReached(x, p) /\ ~StopReached(x, p))

\* C7 witness: a signal that was past expires_at when an exit pass evaluated
\* it at a price beyond its target, closed as target_hit.
C7_Witness ==
    \E c \in ClosedSignals :
        /\ ClosedByLastPass(c)
        /\ now > c.expires_at
        /\ c.exit_reason = "target_hit"

\* The candidates _is_duplicate_signal is asked about.
DedupSetups == {BuyA, SellB, BuyC, BuyF}

\* C8 as stated: a candidate is rejected by _is_duplicate_signal exactly when
\* some active signal with the same timeframe, of whatever symbol, has an
\* entry price less than 0.001 from the candidate's entry.
C8_AnySymbol ==
    \A symbol \in Symbols, timeframe \in Timeframes, setup \in DedupSetups :
        is_duplicate_signal(active,
                            NewSignal(nextUid + 1, nextUid + 1, symbol, timeframe, setup, now))
            <=> \E x \in ActiveSignals :
                    /\ x.timeframe = timeframe
                    /\ Abs(x.entry - setup.entry) < 1000

\* C8, amended: a candidate is rejected by _is_duplicate_signal exactly when
\* some active signal of the candidate's own symbol with the same timeframe
\* has an entry price less than 0.001 from the candidate's entry, and is
\* admitted otherwise (an entry exactly 0.001 away is admitted).
C8_Deduplication ==
    \A symbol \in Symbols, timeframe \in Timeframes, setup \in DedupSetups :
        is_duplicate_signal(active,
                            NewSignal(nextUid + 1, nextUid + 1, symbol, timeframe, setup, now))
            <=> \E x \in ActiveSignals :
                    /\ x.symbol = symbol
                    /\ x.timeframe = timeframe
                    /\ Abs(x.entry - setup.entry) < 1000

\* C8 witness: the worked example.  With an active frxEURUSD H1 signal at
\* entry 1.0850, the scheduler has just rejected a candidate; a frxEURUSD H1
\* candidate at 1.0851 is a duplicate, one at 1.0900 is not, and neither is a
\* frxGBPUSD H1 candidate at 1.0851.
C8_Witness ==
    /\ last.op = "pair"
    /\ last.rejected > 0
    /\ \E x \in ActiveSignals :
          x.symbol = "frxEURUSD" /\ x.timeframe = "H1" /\ x.entry = 1085000
    /\ is_duplicate_signal(active, NewSignal(nextUid + 1, nextUid + 1, "frxEURUSD", "H1", SellB, now))
    /\ ~is_duplicate_signal(active, NewSignal(nextUid + 1, nextUid + 1, "frxEURUSD", "H1", BuyF, now))
    /\ ~is_duplicate_signal(active, NewSignal(nextUid + 1, nextUid + 1, "frxGBPUSD", "H1", SellB, now))

ClosuresWon == Cardinality({i \in DOMAIN closed : closed[i].pips_gained > 0})

C9_Counts ==
    /\ stats.total_trades = Len(closed)
    /\ stats.winning_trades = ClosuresWon
    /\ stats.losing_trades = Len(closed) - ClosuresWon
    /\ Len(closed) > 0 =>
          2 * Abs(stats.win_rate * Len(closed) - 1000 * ClosuresWon) <= Len(closed)

C9_Monotone ==
    /\ stats'.total_trades >= stats.total_trades
    /\ stats'.winning_trades >= stats.winning_trades
    /\ stats'.losing_trades >= stats.losing_trades
    /\ stats'.total_trades - stats.total_trades = Len(closed') - Len(closed)

\* C9: after N closures of which P have pips_gained > 0, the statistics hold
\* total_trades = N, winning_trades = P, losing_trades = N - P (a closure with
\* pips_gained = 0 is a loss) and win_rate = 100 * P / N to one decimal;
\* total_trades always equals the length of the closed log, the three
\* counters never decrease, and total_trades grows by one per closure.
C9_SessionStats == [](C9_Counts) /\ [][C9_Monotone]_vars

\* C9 witness: two closures, one that gained and one that expired at its
\* entry price with no pips, counted as a loss: win rate 50.0.
C9_Witness ==
    /\ \E i \in DOMAIN closed :
          closed[i].pips_gained = 0 /\ closed[i].exit_reason = "time_expired"
    /\ stats.total_trades = 2
    /\ stats.winning_trades = 1
    /\ stats.losing_trades = 1
    /\ stats.win_rate = 500

C10_FailedCloseChangesNothing ==
    (last'.op = "close_signal" /\ last'.target # "active") =>
        /\ last'.result = FALSE
        /\ UNCHANGED <<active, closed, stats>>

C10_ClosedNotEvaluated ==
    /\ \A c \in ClosedSignals : \A p \in CallPrices :
          check_exit_conditions(c, p, now) = None
    /\ (last.op = "check_exit_conditions" /\ last.status # "active") => last.reason = "none"

\* C10: close_signal called with a signal_id that no active signal carries
\* (the id of a signal already closed, or an unknown id) returns False and
\* leaves the active index, the closed log and the statistics as they were;
\* and check_exit_conditions answers no exit for a signal whose status is not
\* 'active'.
C10_ClosingInactiveIsNoOp ==
    [][C10_FailedCloseChangesNothing]_vars /\ [](C10_ClosedNotEvaluated)

\* C10 witness: close_signal was called with the id of a signal that sits in
\* the closed log, past its expiry, and returned False.
C10_Witness ==
    /\ last.op = "close_signal"
    /\ last.target = "closed"
    /\ last.result = FALSE
    /\ \E c \in ClosedSignals : now > c.expires_at

\* The signals opened in the tick that is under way: a tick reads one time
\* on the clock and every signal expires ExpirySeconds after it was built.
OpenedThisTick == {x.uid : x \in {y \in AllSignals : y.expires_at = now + ExpirySeconds}}

\* C11: within one scheduler tick, for each symbol, every exit-condition
\* evaluation of that symbol's signals happens before any new signal is
\* admitted for that symbol in that tick: no exit pass evaluates a signal
\* that was opened earlier in the same tick.
C11_ExitsBeforeOpensInTick ==
    (last.op = "pair" /\ last.exits_checked) => last.evaluated \cap OpenedThisTick = {}

\* A step that is one call of _process_symbol_timeframe.
PairStep == pc = "tick" /\ pair' # pair

OpenEvents(out) == SelectSeq(out, LAMBDA e : e.signal_type = "entry")
CloseEvents(out) == SelectSeq(out, LAMBDA e : e.signal_type = "exit")

C12_OpenPublishedOnAdmission ==
    PairStep =>
        \A x \in ActiveSignals' :
            x.uid \notin {y.uid : y \in AllSignals} =>
                \E i \in DOMAIN sent' :
                    sent'[i].signal_type = "entry" /\ sent'[i].uid = x.uid

C12_CloseOnlyAfterOpen ==
    PairStep =>
        \A i \in DOMAIN sent' :
            sent'[i].signal_type = "exit" =>
                /\ sent'[i].uid \in ActiveUids
                /\ \A j \in DOMAIN sent' :
                      (sent'[j].signal_type = "entry" /\ sent'[j].uid = sent'[i].uid) => j < i

\* C12: the events published for a signal are ordered open before close.  In
\* every call of _process_symbol_timeframe each signal that enters the active
\* index has its signal_opened event published in that call, and every
\* signal_closed event published is for a signal that was already in the
\* active index when the call began, hence opened by an earlier call.
C12_OpenBeforeClose ==
    [][C12_OpenPublishedOnAdmission /\ C12_CloseOnlyAfterOpen]_vars

\* C12 witness: the scheduler has just published the signal_closed event of a
\* signal it opened in an earlier tick.
C12_Witness ==
    /\ last.op = "pair"
    /\ \E i \in DOMAIN sent :
          /\ sent[i].signal_type = "exit"
          /\ \E c \in ClosedSignals :
                c.uid = sent[i].uid /\ c.expires_at < now + ExpirySeconds

\* C13: for every signal the scheduler closes exactly one signal_closed event
\* is handed to the broadcaster, carrying the signal_id, exit_reason,
\* exit_price and pips_gained recorded on that signal in the closed log: the
\* signal_closed events of a call match, one to one and in order, the entries
\* the call appended to the closed log (so none is emitted without a closure).
C13_Step ==
    PairStep =>
        /\ Len(CloseEvents(sent')) = Len(closed') - Len(closed)
        /\ \A i \in DOMAIN CloseEvents(sent') :
              LET e == CloseEvents(sent')[i]
                  c == closed'[Len(closed) + i]
              IN  /\ e.signal_id = c.signal_id
                  /\ e.exit_reason = c.exit_reason
                  /\ e.exit_price = c.exit_price
                  /\ e.pips_gained = c.pips_gained

C13_OneCloseEventPerClosure == [][C13_Step]_vars

\* C13 witness: a pass has closed a signal at its target and the one
\* signal_closed event it sent carries target_hit with the pips of the last
\* entry of the closed log.
C13_Witness ==
    /\ last.op = "pair"
    /\ Len(CloseEvents(sent)) = 1
    /\ closed # <<>>
    /\ CloseEvents(sent)[1].exit_reason = "target_hit"
    /\ CloseEvents(sent)[1].pips_gained = closed[Len(closed)].pips_gained
    /\ CloseEvents(sent)[1].pips_gained > 0

C14_TickGoesOn ==
    (pc = "tick" /\ (pair' # pair \/ pc' # pc)) =>
        IF pair < Len(Pairs) THEN pc' = "tick" /\ pair' = pair + 1
        ELSE pc' = "sleep"

C14_LoopGoesOn ==
    /\ (pc = "sleep" /\ pc' # pc) => pc' = "top"
    /\ (pc = "top" /\ pc' # pc /\ is_running) => (pc' = "tick" /\ pair' = 1)

\* C14: an exception raised while one (symbol, timeframe) pair is processed
\* never aborts the tick: after every pair, whether it returned or raised,
\* the tick goes on with the next pair of monitored symbols x timeframes in
\* order, and after the last pair the loop sleeps and starts the next tick.
C14_FailureDoesNotAbortTick == [][C14_TickGoesOn /\ C14_LoopGoesOn]_vars

\* C14 witness: the first pairs of a tick raised and the tick stands at a
\* later pair, still to be processed.
C14_Witness ==
    /\ last.op = "pair"
    /\ last.raised
    /\ pc = "tick"
    /\ pair = Len(Pairs)
    /\ is_running

FullyActive(x) ==
    /\ x.status = "active"
    /\ x.exit_reason = "none"
    /\ ActiveOccurrences(x.uid) = 1
    /\ Occurrences(closed, x.uid) = 0

FullyClosed(c) ==
    /\ c.status = "closed"
    /\ c.exit_reason \in {"target_hit", "stop_loss_hit", "time_expired"}
    /\ c.exit_price > 0
    /\ ActiveOccurrences(c.uid) = 0
    /\ Occurrences(closed, c.uid) = 1

\* C15: no signal is observable half-transitioned.  At every suspension point
\* of the scheduler (price fetch, broadcast, sleep), stop() having taken
\* effect or not, every signal in the active index is fully active (status
\* 'active', no exit data, not in the closed log) and every signal in the
\* closed log is fully closed (status 'closed', exit data set, not in the
\* active index, there once), and the statistics count exactly the closed
\* log.
C15_NoHalfTransition ==
    /\ \A x \in ActiveSignals : FullyActive(x)
    /\ \A c \in ClosedSignals : FullyClosed(c)
    /\ stats.total_trades = Len(closed)
    /\ stats.winning_trades + stats.losing_trades = Len(closed)

\* C15 witness: stop() has taken effect while the loop is suspended at the
\* broadcast of an exit message, one signal closed and another still active.
C15_Witness ==
    /\ pc = "exits"
    /\ ~is_running
    /\ closed # <<>>
    /\ ActiveSignals # {}

RunningLoops == {i \in LoopIds : loops[i].pc # "none"}

\* C16: for one SignalSchedulerService, under any sequence of start() and
\* stop() calls, at most one signal loop is running at any time.
C16_AtMostOneLoop == Cardinality(RunningLoops) <= 1

C17_NeverRaises == ws.call # "raised"

C17_AtMostOnce == \A c \in Clients : ws.got[c] <= 1

C17_OnReturn ==
    (ws.call = "sending" /\ ws'.call = "returned") =>
        /\ ws'.clients \cap ws.disconnected = {}
        /\ \A c \in ws.targets \ ws.disconnected : ws'.got[c] = 1
        /\ \A c \in Clients \ ws.targets : ws'.got[c] = 0

\* C17: in send_to_all_clients a failed send to one subscriber does not fail
\* the broadcast: the call does not raise, when it returns the failing
\* subscribers are no longer in the subscriber set, and every other
\* subscriber that was in the set when the call started has been sent the
\* event exactly once; nobody is sent it twice.
C17_FailedSendIsPruned ==
    [](C17_NeverRaises /\ C17_AtMostOnce) /\ [][C17_OnReturn]_vars

\* C17 witness: a broadcast to three subscribers has returned; the send to one
\* of them failed and it is gone from the set, the two others were sent the
\* event once.
C17_Witness ==
    /\ ws.call = "returned"
    /\ Cardinality(ws.targets) = 3
    /\ Cardinality(ws.disconnected) = 1
    /\ ws.disconnected \cap ws.clients = {}
    /\ \A c \in ws.targets \ ws.disconnected : ws.got[c] = 1

Waiting(c) == \E i \in DOMAIN ws.queue : ws.queue[i] = c /\ i > 1

\* C18: a slow subscriber cannot stall the others: when the send to one
\* subscriber never completes, every other subscriber of the broadcast is
\* still eventually sent the event, and the call, hence the scheduler tick
\* that awaits it, eventually returns.
C18_SlowSubscriberCannotStall ==
    /\ \A c \in Clients : (ws.call = "blocked" /\ Waiting(c)) ~> (~Waiting(c))
    /\ (ws.call \in {"sending", "blocked"}) ~> (ws.call = "returned")

(* Claims about the analysis of a candle series. *)

\* The windows (i - 2, i - 1, i) of a series whose first candle's low lies
\* more than min_gap_size above the third candle's high.
ClearBullishWindows(candles) ==
    {i \in 2..(Len(candles) - 1) :
        At(candles, i - 2).low > At(candles, i).high + min_gap_size}

\* The windows of a series with no gap of either direction, or a gap below
\* min_gap_size.
NoGapWindows(candles) ==
    {i \in 2..(Len(candles) - 1) :
        /\ ~(/\ At(candles, i - 2).low > At(candles, i).high
             /\ At(candles, i - 2).low - At(candles, i).high >= min_gap_size)
        /\ ~(/\ At(candles, i - 2).high < At(candles, i).low
             /\ At(candles, i).low - At(candles, i - 2).high >= min_gap_size)}

\* The records detect_fvgs returned for the window ending at candle i.
RecordsOf(result, i) == SelectSeq(result.fvgs, LAMBDA fvg : fvg.id[1] = i)

\* Some candle after candle i has a high at or above the low of candle i - 2.
ReachedLater(candles, i) ==
    \E j \in (i + 1)..(Len(candles) - 1) : At(candles, j).high >= At(candles, i - 2).low

Detected == last.op \in {"detect_fvgs", "append_candle"} /\ Len(last.candles) >= 5

\* C20 as stated: for a series of at least 5 candles, every window
\* (i-2, i-1, i) with low[i-2] > high[i] + 0.0002 yields exactly one FVG, of
\* type bullish, with gap_size = low[i-2] - high[i] and status 'active'; a
\* window with neither gap condition, or with a gap below 0.0002, yields
\* nothing; no window yields more than one FVG.
C20_EveryWindow ==
    Detected =>
        \A i \in 2..(Len(last.candles) - 1) :
            LET records == RecordsOf(last.result, i)
            IN  /\ Len(records) <= 1
                /\ i \in NoGapWindows(last.candles) => records = <<>>
                /\ i \in ClearBullishWindows(last.candles) =>
                       /\ Len(records) = 1
                       /\ records[1].type = "bullish"
                       /\ records[1].gap_size
                              = At(last.candles, i - 2).low - At(last.candles, i).high
                       /\ records[1].status = "active"

\* C20, as the detector behaves: the windows examined are those with
\* 2 <= i <= n - 2, so the window ending at the last candle yields nothing;
\* an examined window with low[i-2] > high[i] + 0.0002 yields exactly one
\* FVG, of type bullish, with gap_size = low[i-2] - high[i] rounded to 5
\* decimals, whose status is 'filled' when some later candle's high reaches
\* low[i-2] and 'active' otherwise; an examined window with neither gap
\* condition, or with a gap below 0.0002, yields nothing; no window yields
\* more than one FVG.
C20_DetectFvgs ==
    Detected =>
        /\ RecordsOf(last.result, Len(last.candles) - 1) = <<>>
        /\ \A i \in 2..(Len(last.candles) - 2) :
               LET records == RecordsOf(last.result, i)
               IN  /\ Len(records) <= 1
                   /\ i \in NoGapWindows(last.candles) => records = <<>>
                   /\ i \in ClearBullishWindows(last.candles) =>
                          /\ Len(records) = 1
                          /\ records[1].type = "bullish"
                          /\ records[1].gap_size
                                 = Round5(At(last.candles, i - 2).low
                                          - At(last.candles, i).high, 1)
                          /\ records[1].status
                                 = IF ReachedLater(last.candles, i) THEN "filled"
                                   ELSE "active"

\* detect_fvgs has run on a series with a clear bullish window that a later
\* candle filled, reported once as a filled bullish FVG, and with a clear
\* bullish window ending at the last candle, not reported.
C20_Witness ==
    /\ Detected
    /\ \E i \in ClearBullishWindows(last.candles) :
           /\ i <= Len(last.candles) - 2
           /\ ReachedLater(last.candles, i)
           /\ Len(RecordsOf(last.result, i)) = 1
           /\ RecordsOf(last.result, i)[1].type = "bullish"
           /\ RecordsOf(last.result, i)[1].status = "filled"
    /\ Len(last.candles) - 1 \in ClearBullishWindows(last.candles)
    /\ RecordsOf(last.result, Len(last.candles) - 1) = <<>>

\* The windows of a series, the last included, whose outer candles do not
\* overlap.
GapWindows(candles) ==
    {i \in 2..(Len(candles) - 1) :
        \/ At(candles, i - 2).low > At(candles, i).high
        \/ At(candles, i - 2).high < At(candles, i).low}

Closes(candles) == [k \in 1..Len(candles) |-> candles[k].close]

Lows(candles) == [k \in 1..Len(candles) |-> candles[k].low]

\* The swing lows of a series that lie more than liquidity_threshold below
\* its last close.
BuySideLevels(candles) ==
    identify_buy_side_liquidity(find_swing_lows(Lows(candles), 2),
                                candles[Len(candles)].close)

\* A series of 10 candles with one clear bullish gap that no later candle
\* reaches and no other gap, a last close at least 0.0005 above the
\* exponential average of its closes, and one buy-side liquidity level,
\* less than 0.002 from the gap's entry price (the low of the gap's first
\* candle).
CraftedSeries(candles) ==
    /\ Len(candles) = 10
    /\ \E i \in 2..(Len(candles) - 2) :
           /\ GapWindows(candles) = {i}
           /\ ClearBullishWindows(candles) = {i}
           /\ ~ReachedLater(candles, i)
           /\ Len(BuySideLevels(candles)) = 1
           /\ Abs(At(candles, i - 2).low - BuySideLevels(candles)[1].price) < 2000
    /\ candles[Len(candles)].close
           - calculate_ema(Closes(candles), Len(candles)) >= 500

\* C19: analysing a crafted 10-candle series with one clear bullish gap, a
\* bullish EMA context and one buy-side liquidity level within 0.002 of the
\* gap's entry price yields exactly one trade suggestion, and that
\* suggestion has risk_reward_1 >= 2.0.
C19_EndToEnd ==
    (last.op = "analyze_market_setup" /\ CraftedSeries(last.candles)) =>
        /\ Len(last.result.trade_suggestions) = 1
        /\ last.result.trade_suggestions[1].risk_reward_1 >= min_risk_reward

\* A candle meets the fill condition of a gap: its high reaches gap_bottom
\* (bullish) or its low reaches gap_top (bearish).
FillsGap(fvg, candle) ==
    IF fvg.type = "bullish" THEN candle.high >= fvg.gap_bottom
    ELSE candle.low <= fvg.gap_top

\* The candles after the window of a gap that meet its fill condition.
FillingCandles(candles, fvg) ==
    {j \in (fvg.id[1] + 1)..(Len(candles) - 1) : FillsGap(fvg, At(candles, j))}

\* An FVG is filled iff some candle after its window meets the fill
\* condition, and its fill_index is the smallest such candle.
C21_FilledByEarliest ==
    last.op \in {"detect_fvgs", "append_candle"} =>
        \A k \in 1..Len(last.result.fvgs) :
            LET fvg == last.result.fvgs[k]
                filling == FillingCandles(last.candles, fvg)
            IN  /\ fvg.status \in {"active", "filled"}
                /\ fvg.status = "filled" <=> filling # {}
                /\ filling # {} => fvg.fill_index = Min(filling)

\* When a candle is appended, every FVG reported before is reported again;
\* a filled one stays filled with its fill_index, an active one becomes
\* filled at the appended candle if that candle meets the fill condition and
\* stays active otherwise.
C21_Appended ==
    last'.op = "append_candle" =>
        \A k \in 1..Len(last.result.fvgs) :
            LET fvg == last.result.fvgs[k]
                again == SelectSeq(last'.result.fvgs, LAMBDA g : g.id = fvg.id)
            IN  /\ Len(again) = 1
                /\ fvg.status = "filled" =>
                       /\ again[1].status = "filled"
                       /\ again[1].fill_index = fvg.fill_index
                /\ fvg.status = "active" =>
                       IF FillsGap(fvg, last'.candles[Len(last'.candles)])
                       THEN /\ again[1].status = "filled"
                            /\ again[1].fill_index = Len(last.candles)
                       ELSE again[1].status = "active"

\* C21: FVG fill is a one-way transition decided by the earliest qualifying
\* candle: filled iff some candle after the window meets the fill condition,
\* fill_index the smallest such index; when candles are appended a filled
\* FVG stays filled with the same fill_index and an active one becomes
\* filled at the first appended candle that meets the condition.
C21_FillIsOneWay == []C21_FilledByEarliest /\ [][C21_Appended]_vars

\* A candle was appended to a series with a filled FVG and an active one,
\* and it filled the active one.
C21_Witness ==
    /\ last.op = "append_candle"
    /\ \E k \in 1..Len(last.before.fvgs) :
           /\ last.before.fvgs[k].status = "active"
           /\ \E j \in 1..Len(last.result.fvgs) :
                  /\ last.result.fvgs[j].id = last.before.fvgs[k].id
                  /\ last.result.fvgs[j].status = "filled"
                  /\ last.result.fvgs[j].fill_index = Len(last.candles) - 1
    /\ \E k \in 1..Len(last.before.fvgs) :
           /\ last.before.fvgs[k].status = "filled"
           /\ last.before.fvgs[k].fill_index < Len(last.candles) - 1

Evaluated == last.op = "evaluate_silver_bullet_setup"

Analyzed == last.op = "analyze_market_setup"

\* The bias a dictionary carries, neutral when it carries none.
BiasOf(bias_data) == IF "bias" \in DOMAIN bias_data THEN bias_data.bias ELSE "neutral"

\* C22: Silver Bullet evaluation rejects every FVG whose type differs from
\* the current bias: a bullish FVG is accepted only under bullish bias, a
\* bearish FVG only under bearish bias, and under neutral or missing bias
\* no FVG of either type becomes a setup; the setups of a whole analysis
\* all have the type of the bias that analysis found.
C22_BiasAlignment ==
    /\ Evaluated =>
           /\ last.result # <<>> => BiasOf(last.bias_data) = last.fvg.type
           /\ BiasOf(last.bias_data) = "neutral" => last.result = <<>>
    /\ Analyzed =>
           \A k \in 1..Len(last.result.all_setups) :
               last.result.all_setups[k].fvg.type = last.result.bias.bias

\* A bullish FVG next to buy-side liquidity is turned away under a bias
\* dictionary without a bias.
C22_Witness ==
    /\ Evaluated
    /\ last.fvg.type = "bullish"
    /\ "bias" \notin DOMAIN last.bias_data
    /\ check_liquidity_proximity(last.fvg, last.liquidity_levels)
    /\ last.result = <<>>

\* The entry side of a gap and the liquidity list of its side.
EntryOf(fvg) == IF fvg.type = "bullish" THEN fvg.gap_bottom ELSE fvg.gap_top

SameSide(fvg, liquidity_levels) ==
    IF fvg.type = "bullish" THEN liquidity_levels.buy_side_liquidity
    ELSE liquidity_levels.sell_side_liquidity

NearSameSide(fvg, liquidity_levels) ==
    \E k \in 1..Len(SameSide(fvg, liquidity_levels)) :
        Abs(EntryOf(fvg) - SameSide(fvg, liquidity_levels)[k].price) < 2000

\* C23: a bias-aligned FVG becomes a setup only if its entry price
\* (gap_bottom for bullish, gap_top for bearish) lies less than 0.002 from
\* some level of the same-side liquidity list; it is rejected when that
\* list is empty, when liquidity analysis is incomplete or when no
\* same-side level is in range, whatever the opposite side holds.
C23_LiquidityProximity ==
    /\ (Evaluated /\ BiasOf(last.bias_data) = last.fvg.type) =>
           (last.result # <<>> <=>
                /\ last.liquidity_levels.analysis_complete
                /\ NearSameSide(last.fvg, last.liquidity_levels))
    /\ Analyzed =>
           \A k \in 1..Len(last.result.all_setups) :
               /\ last.result.liquidity.analysis_complete
               /\ NearSameSide(last.result.all_setups[k].fvg, last.result.liquidity)

\* An aligned FVG whose own side holds a far level and then a near one
\* becomes a setup while the opposite side is empty.
C23_Witness ==
    /\ Evaluated
    /\ BiasOf(last.bias_data) = last.fvg.type
    /\ Len(SameSide(last.fvg, last.liquidity_levels)) = 2
    /\ last.liquidity_levels.buy_side_liquidity = <<>>
           \/ last.liquidity_levels.sell_side_liquidity = <<>>
    /\ last.result # <<>>

\* An FVG of an analysis that passes bias alignment, liquidity proximity,
\* the quality minimum and the risk-reward minimum.
Qualifies(fvg, result) ==
    /\ check_bias_alignment(fvg, result.bias)
    /\ check_liquidity_proximity(fvg, result.liquidity)
    /\ calculate_setup_quality(fvg, result.liquidity, result.bias) >= 70
    /\ \/ fvg.target_levels.risk_reward_1 >= 200
       \/ fvg.target_levels.risk_reward_2 >= 200

\* C24: every TradeSuggestion returned by analyze_market_setup derives from
\* exactly one detected FVG, whose status is 'active', whose quality_score
\* is >= 0.7 and which has risk_reward_1 >= 2.0 or risk_reward_2 >= 2.0;
\* conversely every active FVG that passes bias alignment, liquidity
\* proximity, the quality minimum and the risk-reward minimum yields
\* exactly one suggestion.
C24_Suggestions ==
    Analyzed =>
        LET fvgs == last.result.fvgs.fvgs
            suggestions == last.result.trade_suggestions
        IN  /\ \A k \in 1..Len(suggestions) :
                   LET from == {j \in 1..Len(fvgs) : fvgs[j].id = suggestions[k].setup_id}
                   IN  /\ Cardinality(from) = 1
                       /\ \A j \in from :
                              /\ fvgs[j].status = "active"
                              /\ Qualifies(fvgs[j], last.result)
                              /\ suggestions[k].setup_quality >= 70
                              /\ suggestions[k].setup_quality =
                                     calculate_setup_quality(fvgs[j], last.result.liquidity,
                                                             last.result.bias)
                              /\ suggestions[k].type = fvgs[j].type
                              /\ suggestions[k].entry_price = fvgs[j].target_levels.entry
                              /\ \/ suggestions[k].risk_reward_1 >= 200
                                 \/ suggestions[k].risk_reward_2 >= 200
            /\ \A j \in 1..Len(fvgs) :
                   (fvgs[j].status = "active" /\ Qualifies(fvgs[j], last.result)) =>
                       Cardinality({k \in 1..Len(suggestions) :
                                        suggestions[k].setup_id = fvgs[j].id}) = 1

\* An analysis detected an active FVG that passes every test and returned
\* one suggestion, made from it.
C24_Witness ==
    /\ Analyzed
    /\ Len(last.result.trade_suggestions) = 1
    /\ \E j \in 1..Len(last.result.fvgs.fvgs) :
           /\ last.result.fvgs.fvgs[j].status = "active"
           /\ Qualifies(last.result.fvgs.fvgs[j], last.result)
           /\ last.result.trade_suggestions[1].setup_id = last.result.fvgs.fvgs[j].id

\* The bias values that share the highest count of a distribution.
Leaders(distribution) ==
    {b \in DOMAIN distribution :
         \A other \in DOMAIN distribution : distribution[other] <= distribution[b]}

\* C25: get_multi_timeframe_bias returns as overall bias the bias value
\* held by the highest count of timeframes, and whenever two or more bias
\* values tie for the highest count (a bullish/bearish tie included) the
\* overall bias is neutral; overall confidence is the simple average of the
\* per-timeframe confidences.
C25_MajorityVote ==
    (last.op = "get_multi_timeframe_bias" /\ DOMAIN last.candles_by_tf # {}) =>
        LET result == last.result
            leaders == Leaders(result.bias_distribution)
            given == DOMAIN last.candles_by_tf
        IN  /\ DOMAIN result.timeframe_analysis = given
            /\ \A b \in DOMAIN result.bias_distribution :
                   result.bias_distribution[b] =
                       Cardinality({timeframe \in given :
                                        result.timeframe_analysis[timeframe].bias = b})
            /\ Cardinality(leaders) = 1 => result.overall_bias \in leaders
            /\ Cardinality(leaders) >= 2 => result.overall_bias = "neutral"
            /\ result.overall_confidence =
                   RoundHalfEven(SumConfidence(result.timeframe_analysis, given),
                                 Cardinality(given))

\* The swing points of one list are those of another at the same indices
\* and with the same strength, at the negated price.
Swapped(mirrored, original) ==
    /\ Len(mirrored) = Len(original)
    /\ \A k \in 1..Len(original) :
           /\ mirrored[k].index = original[k].index
           /\ mirrored[k].strength = original[k].strength
           /\ mirrored[k].price = 0 - original[k].price

\* Index i is inside the series by two candles on either side.
Inner(candles, i) == 2 <= i /\ i <= Len(candles) - 3

StrictHigh(candles, i) ==
    \A j \in {i - 2, i - 1, i + 1, i + 2} : At(candles, i).high > At(candles, j).high

StrictLow(candles, i) ==
    \A j \in {i - 2, i - 1, i + 1, i + 2} : At(candles, i).low < At(candles, j).low

\* C26: swing detection is symmetric under price negation: on the mirrored
\* series (high' = -low, low' = -high) index i is a swing high iff it is a
\* swing low of the original and vice versa, with equal strength; swing
\* points occur only at indices 2 <= i <= n-3 and exactly where the price
\* is a strict extremum over the four neighbours i-2, i-1, i+1, i+2.
C26_SwingSymmetry ==
    last.op = "find_swings" =>
        /\ Swapped(last.mirrored_swing_highs, last.swing_lows)
        /\ Swapped(last.mirrored_swing_lows, last.swing_highs)
        /\ {last.swing_highs[k].index : k \in 1..Len(last.swing_highs)} =
               {i \in 0..(Len(last.candles) - 1) :
                    Inner(last.candles, i) /\ StrictHigh(last.candles, i)}
        /\ {last.swing_lows[k].index : k \in 1..Len(last.swing_lows)} =
               {i \in 0..(Len(last.candles) - 1) :
                    Inner(last.candles, i) /\ StrictLow(last.candles, i)}

\* A series with a swing high and a swing low, and with an inner candle
\* whose high equals a neighbour's and tops the other three.
C26_Witness ==
    /\ last.op = "find_swings"
    /\ last.swing_highs # <<>>
    /\ last.swing_lows # <<>>
    /\ \E i \in 2..(Len(last.candles) - 3) :
           /\ ~StrictHigh(last.candles, i)
           /\ \A j \in {i - 2, i - 1, i + 1, i + 2} :
                  At(last.candles, i).high >= At(last.candles, j).high

\* The target levels put the stop on the losing side and both targets on
\* the winning side of the entry, and the ratios are reward over risk.
TargetSides(fvg) ==
    LET t == fvg.target_levels
        risk == Abs(t.entry - t.stop_loss)
    IN  /\ IF fvg.type = "bullish"
           THEN /\ t.stop_loss < t.entry
                /\ t.entry < t.take_profit_1
                /\ t.take_profit_1 <= t.take_profit_2
           ELSE /\ t.take_profit_2 <= t.take_profit_1
                /\ t.take_profit_1 < t.entry
                /\ t.entry < t.stop_loss
        /\ 2 * risk = fvg.gap_size
        /\ t.risk_reward_1 = RoundHalfEven(100 * Abs(t.take_profit_1 - t.entry), risk)
        /\ t.risk_reward_2 = RoundHalfEven(100 * Abs(t.take_profit_2 - t.entry), risk)
        /\ t.risk_reward_1 > 0
        /\ t.risk_reward_2 > 0

\* C27: for every detected FVG a bullish one has
\* stop_loss < entry < take_profit_1 <= take_profit_2 and a bearish one
\* take_profit_2 <= take_profit_1 < entry < stop_loss, with
\* risk = 0.5 * gap_size and
\* risk_reward_k = |take_profit_k - entry| / |entry - stop_loss| > 0.
C27_TargetLevels ==
    Detected => \A k \in 1..Len(last.result.fvgs) : TargetSides(last.result.fvgs[k])

\* The data source delivered a series of at least one well-formed candle.
Delivered ==
    /\ last.op \in {"analyze_market_setup", "generate_educational_signals"}
    /\ "source" \in DOMAIN last
    /\ last.source.kind = "returns"
    /\ last.source.candles # <<>>
    /\ WellFormed(last.source.candles)

\* C28: insufficient data is a value, not an exception: with fewer than 5
\* candles detect_fvgs, and with fewer than 20 candles
\* find_liquidity_levels, return a result with analysis_complete = false and
\* empty lists, and analyze_market_setup on such a series succeeds with zero
\* setups and zero trade suggestions.
C28_InsufficientData ==
    (Delivered /\ last.op = "analyze_market_setup"
         /\ Len(last.source.candles) < 20) =>
        /\ last.result.success
        /\ last.result.candles = last.source.candles
        /\ ~last.result.analysis.liquidity.analysis_complete
        /\ last.result.analysis.liquidity.buy_side_liquidity = <<>>
        /\ last.result.analysis.liquidity.sell_side_liquidity = <<>>
        /\ last.result.analysis.all_setups = <<>>
        /\ last.result.analysis.trade_suggestions = <<>>
        /\ Len(last.source.candles) < 5 =>
               /\ ~last.result.analysis.fvgs.analysis_complete
               /\ last.result.analysis.fvgs.fvgs = <<>>
               /\ last.result.analysis.fvgs.active_fvgs = <<>>
               /\ last.result.analysis.fvgs.filled_fvgs = <<>>

\* The analysis of 19 candles, done: FVGs detected, liquidity incomplete,
\* nothing suggested.
C28_Witness ==
    /\ Delivered /\ last.op = "analyze_market_setup"
    /\ Len(last.source.candles) = 19
    /\ last.result.success
    /\ last.result.analysis.fvgs.fvgs # <<>>
    /\ ~last.result.analysis.liquidity.analysis_complete
    /\ last.result.analysis.trade_suggestions = <<>>

\* C29: data-source failure is never fatal: when get_historical_candles
\* raises or returns an empty series, analyze_market_setup succeeds with the
\* analysis of the synthetic candles; when the analysis fails the result is
\* success = false and generate_educational_signals returns the fallback
\* generator's signals; otherwise it returns signals made from the
\* suggestions.
C29_SourceFailure ==
    /\ (last.op = "analyze_market_setup" /\ "source" \in DOMAIN last
            /\ (last.source.kind = "raises" \/ last.source.candles = <<>>)) =>
           /\ last.result.success
           /\ last.result.candles = last.fallback
           /\ last.result.analysis = analyze_market_setup(last.fallback, last.timeframe)
    /\ last.op = "generate_educational_signals" =>
           /\ ~last.analysis.success => last.result = last.fallback_signals
           /\ last.analysis.success =>
                  /\ Len(last.result) <= Len(last.analysis.analysis.trade_suggestions)
                  /\ \A k \in 1..Len(last.result) :
                         \E j \in 1..Len(last.analysis.analysis.trade_suggestions) :
                             /\ last.result[k].entry =
                                    last.analysis.analysis.trade_suggestions[j].entry_price
                             /\ Abs(last.result[k].take_profit - last.result[k].entry)
                                    >= 2000
           /\ (last.source.kind = "raises" \/ last.source.candles = <<>>) =>
                  last.analysis.success

\* The data source raised and the signals returned come from the analysis
\* of the synthetic candles.
C29_Witness ==
    /\ last.op = "generate_educational_signals"
    /\ last.source.kind = "raises"
    /\ last.analysis.success
    /\ last.analysis.candles = last.fallback
    /\ last.result # <<>>
    /\ last.fallback_signals = <<>>

\* No two active signals of one symbol and one timeframe have entries less
\* than 0.001 apart.
C30_Apart ==
    \A x \in ActiveSignals, y \in ActiveSignals :
        (x.uid # y.uid /\ x.symbol = y.symbol /\ x.timeframe = y.timeframe) =>
            Abs(x.entry - y.entry) >= 1000

\* A candidate that is 0.001 or more from every active signal of its own
\* symbol and timeframe passes the dedup check, whatever other symbols hold.
C30_OwnSymbol ==
    \A symbol \in Symbols, timeframe \in Timeframes, setup \in DedupSetups :
        (\A x \in ActiveSignals :
             (x.symbol = symbol /\ x.timeframe = timeframe) =>
                 Abs(x.entry - setup.entry) >= 1000)
            => ~is_duplicate_signal(active,
                   NewSignal(nextUid + 1, nextUid + 1, symbol, timeframe, setup, now))

\* C30: in every state reachable through the scheduler, no two active
\* signals with the same symbol and the same timeframe have entry prices
\* that differ by less than 0.001, two signals of one generation batch
\* included; the dedup check compares a candidate only against active
\* signals of its own symbol, and an entry difference of exactly 0.001 is
\* admitted.
C30_NoNearDuplicates == C30_Apart /\ C30_OwnSymbol

\* The scheduler has just turned a candidate away and holds two active
\* signals of one symbol and timeframe, admitted at different ticks, whose
\* entries are exactly 0.001 apart.
C30_Witness ==
    /\ last.op = "pair"
    /\ last.rejected > 0
    /\ \E x \in ActiveSignals, y \in ActiveSignals :
           /\ x.symbol = y.symbol /\ x.timeframe = y.timeframe
           /\ x.entry - y.entry = 1000
           /\ x.expires_at > y.expires_at

\* The high-quality setups of an analysis whose FVG has the given type.
SetupsOfType(result, type) ==
    {k \in 1..Len(result.high_quality_setups) :
         result.high_quality_setups[k].fvg.type = type}

\* The ratios every FVG of a type carries: a bullish gap has its bottom
\* (the low of the first candle) above its top (the high of the third).
FixedRatios(fvg) ==
    IF fvg.type = "bullish"
    THEN /\ fvg.gap_bottom > fvg.gap_top
         /\ fvg.target_levels.risk_reward_1 = -200
         /\ fvg.target_levels.risk_reward_2 = 0
    ELSE /\ fvg.gap_top > fvg.gap_bottom
         /\ fvg.target_levels.risk_reward_1 = 200
         /\ fvg.target_levels.risk_reward_2 = 400

\* C31: every TradeSuggestion of analyze_market_setup has type bearish:
\* every bullish FVG has gap_bottom above gap_top, risk_reward_1 = -2.0 and
\* risk_reward_2 = 0.0, and no high-quality bullish setup becomes a
\* suggestion; every bearish FVG has risk_reward_1 = 2.0 and
\* risk_reward_2 = 4.0, and every high-quality bearish setup becomes one.
C31_OnlyBearishSuggestions ==
    /\ Detected => \A k \in 1..Len(last.result.fvgs) : FixedRatios(last.result.fvgs[k])
    /\ Analyzed =>
           LET suggestions == last.result.trade_suggestions
               setups == last.result.high_quality_setups
           IN  /\ \A k \in 1..Len(last.result.fvgs.fvgs) :
                      FixedRatios(last.result.fvgs.fvgs[k])
               /\ \A k \in 1..Len(suggestions) : suggestions[k].type = "bearish"
               /\ \A k \in SetupsOfType(last.result, "bullish") :
                      \A j \in 1..Len(suggestions) :
                          suggestions[j].setup_id # setups[k].fvg.id
               /\ \A k \in SetupsOfType(last.result, "bearish") :
                      \E j \in 1..Len(suggestions) :
                          suggestions[j].setup_id = setups[k].fvg.id

\* An analysis found a bullish setup of high quality and suggested nothing.
C31_Witness ==
    /\ Analyzed
    /\ SetupsOfType(last.result, "bullish") # {}
    /\ last.result.trade_suggestions = <<>>

\* An analysis found a bearish setup of high quality and suggested it.
C31_BearishSuggested ==
    /\ Analyzed
    /\ SetupsOfType(last.result, "bearish") # {}
    /\ last.result.trade_suggestions # <<>>

\* The analysed series is not empty and shorter than the EMA period of the
\* timeframe.
ShortForPeriod ==
    /\ last.candles # <<>>
    /\ Len(last.candles) < default_ema_periods(last.timeframe)

\* C32: whenever the candle series is shorter than the EMA period selected
\* for the timeframe (200 for H1 and for unmapped timeframes such as M15),
\* the EMA equals the last close, determine_bias returns neutral with
\* confidence 0.3, and analyze_market_setup produces no setup and no trade
\* suggestion, whatever the candles contain.
C32_ShortSeriesIsNeutral ==
    (Analyzed /\ ShortForPeriod) =>
        /\ last.result.bias.ema_value = last.result.bias.current_price
        /\ last.result.bias.ema_value = Round5(last.candles[Len(last.candles)].close, 1)
        /\ last.result.bias.bias = "neutral"
        /\ last.result.bias.confidence = 30
        /\ last.result.all_setups = <<>>
        /\ last.result.high_quality_setups = <<>>
        /\ last.result.trade_suggestions = <<>>

\* An analysis at an unmapped timeframe of 24 candles that hold an active
\* gap next to liquidity found no setup, while the same candles analysed at
\* D1, whose period they reach, give a trade suggestion.
C32_Witness ==
    /\ Analyzed
    /\ ShortForPeriod
    /\ last.timeframe = "M15"
    /\ last.result.fvgs.active_fvgs # <<>>
    /\ last.result.liquidity.analysis_complete
    /\ last.result.all_setups = <<>>
    /\ analyze_market_setup(last.candles, "D1").trade_suggestions # <<>>

\* The signals the step has appended to the closed log.
NewlyClosed == {closed'[k] : k \in (Len(closed) + 1)..Len(closed')}

C33_EventuallyClosed ==
    \A u \in 1..MaxSignals : (u \in ActiveUids) ~> (u \in ClosedUids /\ u \notin ActiveUids)

C33_NotBeforeExpiry ==
    \A c \in NewlyClosed : c.exit_reason = "time_expired" => now' > c.expires_at

\* C33: while the scheduler keeps ticking and obtains a price at each
\* fetch, every signal admitted to the active index is eventually closed,
\* at the latest by an exit evaluation after its expires_at, and no signal
\* is closed as time_expired before its expires_at.
C33_EveryOpenSignalCloses == C33_EventuallyClosed /\ [][C33_NotBeforeExpiry]_vars

\* A signal was closed on its expiry, and the last exit pass passed over a
\* signal of the bucket that was due: it stays for a later pass.
C33_Witness ==
    /\ last.op = "pair"
    /\ last.due \ last.evaluated # {}
    /\ \E c \in ClosedSignals : c.exit_reason = "time_expired" /\ now > c.expires_at

\* What the signal loop does in one step while the flag is cleared: at the
\* test of the while loop it ends, in a tick it goes on to the next pair
\* and, after the last one, to the sleep, and once it has ended no signal
\* is opened or closed.
C34_StoppedStep ==
    ~is_running =>
        /\ pc = "top" => pc' \in {"top", "idle"}
        /\ (pc = "tick" /\ <<pc, pair>>' # <<pc, pair>>) =>
               IF pair < Len(Pairs) THEN pc' = "tick" /\ pair' = pair + 1
               ELSE pc' = "sleep"
        /\ pc = "sleep" => pc' \in {"sleep", "top"}
        /\ pc = "idle" => UNCHANGED <<active, closed, stats, nextUid>>

C34_LoopEnds == ~is_running ~> (pc = "idle")

\* C34: after stop() the signal loop starts no new tick: the tick in
\* progress, all its remaining pairs, runs to completion, the loop then
\* finds is_running false at the top of the next iteration and ends, and no
\* signal is opened or closed by the scheduler after that.
C34_StopEndsLoop == [][C34_StoppedStep]_vars /\ C34_LoopEnds

\* stop() has been called in a tick that had admitted a signal and still
\* has a pair to process.
C34_Witness ==
    /\ ~is_running
    /\ pc = "tick"
    /\ pair > 1
    /\ last.op = "pair"
    /\ ActiveSignals # {}

\* The keys of a signal as either generator builds it.
SignalKeys ==
    {"signal_id", "type", "symbol", "timeframe", "entry", "stop_loss", "take_profit",
     "pips_target", "trade_style", "confidence", "reason", "explanation",
     "beginner_tip", "pattern_description", "risk_warning", "session", "timestamp",
     "expires_at", "status"}

\* What the model adds to a signal: the identity of the dictionary and the
\* places of the keys close_signal writes.
CarriedKeys == {"uid", "exit_reason", "exit_price", "pips_gained"}

\* The part of a signal the index, the duplicate test, the exit test, the
\* statistics and the messages are computed from.
Lifecycle(signal) == [key \in DOMAIN NewSignal(0, 0, "", "", BuyA, 0) |-> signal[key]]

LifecycleOf(signals) == [k \in DOMAIN signals |-> Lifecycle(signals[k])]

\* What a consumer sees of a run, the texts of the signals left out: the
\* index, the closed log, the statistics and the messages.
Handling(run) ==
    [active |-> [s \in Symbols |-> LifecycleOf(run.gen.active[s])],
     closed |-> LifecycleOf(run.gen.closed),
     stats |-> run.gen.stats,
     out |-> run.out]

\* C35: a signal of the fallback generator has exactly the keys of a signal
\* derived from an analysis, none of them a mark of its origin, and it is
\* handled as that signal is: when the two generators were given signals of
\* the same symbol, timeframe, levels and expiry, one by the analysis and one
\* by the fallback, they hold the same active index, closed log and statistics
\* after the duplicate test and after every exit pass, and they have broadcast
\* the same messages; whatever the levels, the messages have the same keys.
C35_FallbackIndistinguishable ==
    /\ last.op \in {"generated", "admitted", "exited"} =>
           /\ \A k \in DOMAIN last.analysed.signals :
                  DOMAIN last.analysed.signals[k] = SignalKeys \cup CarriedKeys
           /\ \A k \in DOMAIN last.fallback.signals :
                  DOMAIN last.fallback.signals[k] = SignalKeys \cup CarriedKeys
    /\ last.op \in {"admitted", "exited"} =>
           /\ LifecycleOf(last.analysed.signals) = LifecycleOf(last.fallback.signals)
                  => Handling(last.analysed) = Handling(last.fallback)
           /\ \A i \in DOMAIN last.analysed.out, j \in DOMAIN last.fallback.out :
                  last.analysed.out[i].signal_type = last.fallback.out[j].signal_type
                      => DOMAIN last.analysed.out[i] = DOMAIN last.fallback.out[j]
           /\ \A run \in {last.analysed, last.fallback} :
                  \A s \in Symbols : \A i \in DOMAIN run.gen.active[s] :
                      run.gen.active[s][i].symbol = s

\* Both generators have closed their signal, one built from an analysis and
\* one by the fallback with the same levels but another type and other
\* texts, and counted the trade.
C35_Witness ==
    /\ last.op = "exited"
    /\ Len(last.analysed.signals) = 1
    /\ LifecycleOf(last.analysed.signals) = LifecycleOf(last.fallback.signals)
    /\ last.analysed.signals[1].type # last.fallback.signals[1].type
    /\ last.analysed.signals[1].reason # last.fallback.signals[1].reason
    /\ \E k \in DOMAIN last.fallback.gen.closed :
           last.fallback.gen.closed[k].uid = last.fallback.signals[1].uid
    /\ last.fallback.gen.stats.total_trades = 1
    /\ Len(last.fallback.out) = 2

\* The handlers of the streamer that still listen or sleep.
Pending == {h \in DOMAIN streamer.handlers : streamer.handlers[h].pc # "done"}

\* A handler has lost its connection and made its reconnection attempt, or
\* given it up.
HasRetried ==
    \E h \in DOMAIN streamer.handlers :
        streamer.handlers[h].ended \in {"refused", "auth_raises", "gave_up"}

\* reconnect_attempts never exceeds max_reconnect_attempts.
C36_AttemptsBounded == streamer.reconnect_attempts <= max_reconnect_attempts

\* Every connect() that opens its socket sets reconnect_attempts to 0.
C36_ResetByConnect ==
    streamer'.sockets > streamer.sockets => streamer'.reconnect_attempts = 0

\* A handler that starts its reconnection sleeps reconnect_delay times the
\* number of the attempt.
C36_DelayByAttempt ==
    \A h \in DOMAIN streamer.handlers :
        (streamer.handlers[h].pc = "listening" /\ streamer'.handlers[h].pc = "sleeping")
            => /\ streamer'.reconnect_attempts = streamer.reconnect_attempts + 1
               /\ streamer'.handlers[h].delay = reconnect_delay * streamer'.reconnect_attempts
               /\ streamer'.handlers[h].wake = now' + streamer'.handlers[h].delay

\* The streamer is left disconnected after a lost connection, with no
\* handler listening or sleeping, only when max_reconnect_attempts attempts
\* have been made.
C36_RetriedToTheEnd ==
    (~streamer.is_connected /\ HasRetried /\ Pending = {})
        => streamer.reconnect_attempts = max_reconnect_attempts

\* C36: after a lost connection the streamer retries, sleeping 5 s times the
\* number of the attempt before each connect(), until a connect() succeeds
\* or max_reconnect_attempts attempts have failed; reconnect_attempts never
\* exceeds 5 and every successful connect() sets it to 0.
C36_RetriesUntilConnected ==
    /\ []C36_AttemptsBounded
    /\ [][C36_ResetByConnect /\ C36_DelayByAttempt]_vars
    /\ []C36_RetriedToTheEnd

\* The parts of C36 that hold: the bound, the reset and the delays.
C36_CounterAndDelays ==
    []C36_AttemptsBounded /\ [][C36_ResetByConnect /\ C36_DelayByAttempt]_vars

\* Five handlers have lost their connections one after the other: the
\* fifth sleeps 25 s, and a sixth loss is given up.
C36_FiveAttempts ==
    /\ streamer.reconnect_attempts = max_reconnect_attempts
    /\ \E h \in DOMAIN streamer.handlers :
           streamer.handlers[h].delay = reconnect_delay * max_reconnect_attempts

\* A connection was lost and the one reconnection refused: one attempt made,
\* nothing pending, not connected.
C36_GaveUpAfterOne ==
    /\ ~streamer.is_connected
    /\ Pending = {}
    /\ Len(streamer.handlers) = 1
    /\ streamer.handlers[1].ended = "refused"
    /\ streamer.reconnect_attempts = 1

\* The active signals in the order close_signal scans them: bucket after
\* bucket, each from its first signal on.
RECURSIVE ScanFrom(_, _)
ScanFrom(act, b) ==
    IF b > Len(monitored_symbols) THEN <<>>
    ELSE act[monitored_symbols[b]] \o ScanFrom(act, b + 1)

Scan(act) == ScanFrom(act, 1)

\* The calls that change the active index, the closed log or the statistics.
LifecycleCalls == {"add_signal", "close_signal", "exit_pass"}

\* An evaluation leaves the signal, the index, the closed log and the
\* statistics alone, whatever it answers.
C37_EvaluationIsPure ==
    last'.op = "check_exit_conditions" => UNCHANGED <<active, closed, stats, nextUid>>

\* The index, the log, the statistics and every signal change only in
\* add_signal and close_signal (the exit pass calls close_signal): add_signal
\* appends one new signal to a bucket and touches nothing else, and elsewhere
\* the active signals only leave, to the closed log, one per trade counted.
C37_ChangesOnlyInLifecycleCalls ==
    /\ <<active, closed, stats>>' # <<active, closed, stats>> => last'.op \in LifecycleCalls
    /\ last'.op = "add_signal" =>
           /\ UNCHANGED <<closed, stats>>
           /\ \E s \in Symbols :
                  /\ Len(active'[s]) = Len(active[s]) + 1
                  /\ active' = [active EXCEPT ![s] = Append(@, active'[s][Len(active'[s])])]
                  /\ active'[s][Len(active'[s])].uid \notin {x.uid : x \in AllSignals}
    /\ last'.op \in {"close_signal", "exit_pass"} =>
           /\ ActiveSignals' \subseteq ActiveSignals
           /\ SubSeq(closed', 1, Len(closed)) = closed
           /\ stats'.total_trades - stats.total_trades = Len(closed') - Len(closed)
           /\ Cardinality(ActiveSignals) - Cardinality(ActiveSignals')
                  = Len(closed') - Len(closed)

\* A close_signal call that returns True has changed one signal and no
\* other: the first in the scan that carries the id left the index and was
\* appended, closed, to the log, and one trade was counted.
C37_CloseChangesTheFirstMatch ==
    (last'.op = "close_signal" /\ last'.result) =>
        \E k \in DOMAIN Scan(active) :
            /\ closed' = Append(closed, closed'[Len(closed')])
            /\ closed'[Len(closed')] =
                   [Scan(active)[k] EXCEPT !.status = "closed",
                                           !.exit_reason = closed'[Len(closed')].exit_reason,
                                           !.exit_price = closed'[Len(closed')].exit_price,
                                           !.pips_gained = closed'[Len(closed')].pips_gained]
            /\ \A j \in 1..(k - 1) :
                   Scan(active)[j].signal_id # Scan(active)[k].signal_id
            /\ Scan(active') = RemoveAt(Scan(active), k)
            /\ stats'.total_trades = stats.total_trades + 1

\* Wherever two or more active signals carry one id, close_signal with that
\* id takes the first of them in the scan and leaves the others in place.
C37_FirstOfSeveral ==
    \A x \in ActiveSignals :
        LET res == close_signal(Gen(active, closed, stats), x.signal_id,
                                ExitDict("target_hit", x.take_profit, 0, x.signal_id))
            first == Min({k \in DOMAIN Scan(active) :
                             Scan(active)[k].signal_id = x.signal_id})
        IN  /\ res.ok
            /\ Scan(res.gen.active) = RemoveAt(Scan(active), first)
            /\ Len(res.gen.closed) = Len(closed) + 1
            /\ res.gen.closed[Len(res.gen.closed)].uid = Scan(active)[first].uid

\* C37: check_exit_conditions is a pure evaluation: it modifies neither the
\* signal it is given nor the active index, the closed log or the
\* statistics; these change only in add_signal and in close_signal; and a
\* close_signal call changes exactly one signal, the first active one in the
\* scan order whose signal_id matches.
C37_PureEvaluation ==
    /\ [][C37_EvaluationIsPure]_vars
    /\ [][C37_ChangesOnlyInLifecycleCalls]_vars
    /\ [][C37_CloseChangesTheFirstMatch]_vars
    /\ []C37_FirstOfSeveral

\* check_exit_conditions has just answered that the target is hit for an
\* active signal, one of two active signals with the same id, and both are
\* still active with nothing closed or counted.
C37_Witness ==
    /\ last.op = "check_exit_conditions"
    /\ last.status = "active"
    /\ last.reason = "target_hit"
    /\ \E x, y \in ActiveSignals : x.uid # y.uid /\ x.signal_id = y.signal_id
    /\ closed = <<>>
    /\ stats.total_trades = 0

\* close_signal has closed an active signal when called directly.
C37_DirectClose ==
    /\ last.op = "close_signal"
    /\ last.result

====
